---- MODULE Spec2Model ----
(***************************************************************************)
(* A model of the Wayland back end of the `window` crate:                  *)
(*   - WaylandConnection::run_message_loop, the merged event loop          *)
(*     (timers, SPAWN_QUEUE, flush, event_q.dispatch),                     *)
(*   - WaylandConnection::with_window_inner, the bridge that schedules a   *)
(*     closure against a window's state and returns a future,              *)
(*   - PendingEvent::queue and WaylandWindowInner::dispatch_pending_event, *)
(*     the per-window coalescer and its drain.                             *)
(* The loop thread's steps, the producer threads' calls and the protocol   *)
(* notifications are the actions; callbacks are counted per window.        *)
(***************************************************************************)
EXTENDS Integers, Sequences, FiniteSets, TLC

(* ------------------------------ bounds -------------------------------- *)
\* Threads other than the loop thread that call the bridge.
NumProducers == 2
\* Bridge calls the producer threads make, all together.
MaxProducerCalls == 3
\* Protocol notifications (window events and scale changes) delivered.
MaxEvents == 4
\* Timers scheduled.
MaxTimers == 2
\* Under FairSpec: bridge calls of the producers, and protocol notifications.
FairCalls == 2
\* The clock stops advancing here (milliseconds).
MaxNow == 6000
\* Calls of new_window.
MaxWindows == 2
\* Timer callbacks counted; further ones are not told apart.
MaxFired == 3
\* Bytes of the longest text given to set_clipboard.
MaxText == 2
\* Send requests of the compositor for the selection.
MaxSends == 2

Producers == 1..NumProducers
\* The ids new_window may hand out (next_window_id starts at 1).
WindowIds == 1..MaxWindows

(* ------------------------- program constants -------------------------- *)
DEFAULT_DPI == 96
FALLBACK_PERIOD_MS == 2500

\* Option<T>: None is the empty sequence, Some(x) the one-element sequence.
None == <<>>
Some(x) == <<x>>
IsSome(o) == o # <<>>
Unwrap(o) == o[1]

\* Surface sizes carried by Configure notifications and given to new_window.
InitialSize == <<800, 600>>
OtherSize == <<400, 300>>
SurfaceSizes == {InitialSize, OtherSize}
ScaleFactors == {1, 2}
\* Intervals given to schedule_timer, in milliseconds.
TimerIntervals == {0, 1000, 5000}
\* text.len() of the texts given to set_clipboard.
TextLens == 0..MaxText

(* ------------------------------- state -------------------------------- *)
VARIABLES
    pc,                \* the loop thread's position in run_message_loop
    should_terminate,  \* WaylandConnection.should_terminate
    period,            \* the wait period computed for event_q.dispatch
    drain_left,        \* tasks SPAWN_QUEUE.run() still has to run in this call
    ran_any,           \* whether this SPAWN_QUEUE.run() ran a task
    buf,               \* write_pipe_with_timeout: bytes still to be written
    SPAWN_QUEUE,       \* the cross-thread task queue: call ids, oldest first
    wake,              \* the queue's wake signal is readable
    timers,            \* WaylandConnection.timers: <<[due, interval]>>
    now,               \* Instant::now(): milliseconds since the first timer
    fired,             \* timer callbacks invoked so far (up to MaxFired)
    next_window_id,    \* WaylandConnection.next_window_id
    windows,           \* WaylandConnection.windows: id -> WaylandWindowInner
    pending_event,     \* id -> the window's shared PendingEvent
    scale,             \* id -> get_surface_scale_factor(surface)
    calls,             \* thread -> its with_window_inner calls and their promises
    left,              \* what the environment may still do (the bounds)
    qlog,              \* id -> the last queue() calls since the last drain
    batch,             \* id -> the run of same-size Configures being followed
    fresh,             \* id -> how far a new window's first Configure got
    term_at_call,      \* should_terminate was set when run_message_loop was called
    last_paint,        \* what the paint of the task just run did, if it painted
    last_io,           \* the io result the loop thread has just been given
    clip_fut,          \* get_clipboard call -> its reader thread and its promise
    issued             \* the ids next_window_id() has returned, oldest first

loopVars == <<pc, should_terminate, period, drain_left, ran_any, buf>>
queueVars == <<SPAWN_QUEUE, wake, calls>>
timerVars == <<timers, now, fired>>
winVars == <<next_window_id, windows, pending_event, scale>>
obsVars == <<qlog, batch, fresh, term_at_call, last_paint, last_io>>
auxVars == <<clip_fut, issued>>
vars == <<loopVars, queueVars, timerVars, winVars, left, obsVars, auxVars>>

(* ---------------------------- PendingEvent ---------------------------- *)
\* #[derive(Default)] PendingEvent
PendingEvent_default ==
    [close |-> FALSE, had_configure_event |-> FALSE, refresh_decorations |-> FALSE,
     configure |-> None, dpi |-> None, full_screen |-> None]

\* toolkit::window::Event; `fullscreen` is states.contains(&State::Fullscreen).
EvClose == [type |-> "Close", new_size |-> None, fullscreen |-> FALSE]
EvRefresh == [type |-> "Refresh", new_size |-> None, fullscreen |-> FALSE]
EvConfigure(new_size, fullscreen) ==
    [type |-> "Configure", new_size |-> new_size, fullscreen |-> fullscreen]
Events ==
    {EvClose, EvRefresh}
    \cup {EvConfigure(s, f) : s \in {None} \cup {Some(z) : z \in SurfaceSizes},
                              f \in BOOLEAN}

\* PendingEvent::queue that reports every Close as a change.
PendingEvent_queue_close_always(self, evt) ==
    CASE evt.type = "Close" ->
           [pe |-> [self EXCEPT !.close = TRUE], changed |-> TRUE]
      [] evt.type = "Refresh" ->
           IF ~self.refresh_decorations
           THEN [pe |-> [self EXCEPT !.refresh_decorations = TRUE], changed |-> TRUE]
           ELSE [pe |-> self, changed |-> FALSE]
      [] OTHER ->
           LET s1 == [self EXCEPT !.had_configure_event = TRUE]
               changed1 == IF IsSome(evt.new_size) THEN ~IsSome(self.configure) ELSE TRUE
               s2 == IF IsSome(evt.new_size)
                     THEN [s1 EXCEPT !.configure = evt.new_size]
                     ELSE s1
               keep == ~IsSome(self.full_screen) /\ ~evt.fullscreen
           IN IF keep
              THEN [pe |-> s2, changed |-> changed1]
              ELSE [pe |-> [s2 EXCEPT !.full_screen = Some(evt.fullscreen)],
                    changed |-> TRUE]

\* PendingEvent::queue that keeps the first size buffered since the drain.
PendingEvent_queue_keeps_first(self, evt) ==
    CASE evt.type = "Close" ->
           IF ~self.close
           THEN [pe |-> [self EXCEPT !.close = TRUE], changed |-> TRUE]
           ELSE [pe |-> self, changed |-> FALSE]
      [] evt.type = "Refresh" ->
           IF ~self.refresh_decorations
           THEN [pe |-> [self EXCEPT !.refresh_decorations = TRUE], changed |-> TRUE]
           ELSE [pe |-> self, changed |-> FALSE]
      [] OTHER ->
           LET s1 == [self EXCEPT !.had_configure_event = TRUE]
               changed1 == IF IsSome(evt.new_size) THEN ~IsSome(self.configure) ELSE TRUE
               s2 == IF IsSome(evt.new_size) /\ ~IsSome(self.configure)
                     THEN [s1 EXCEPT !.configure = evt.new_size]
                     ELSE s1
               keep == ~IsSome(self.full_screen) /\ ~evt.fullscreen
           IN IF keep
              THEN [pe |-> s2, changed |-> changed1]
              ELSE [pe |-> [s2 EXCEPT !.full_screen = Some(evt.fullscreen)],
                    changed |-> TRUE]

\* PendingEvent::queue that reports a Configure without a size as no change
\* unless it sets the fullscreen state.
PendingEvent_queue_sizeless_quiet(self, evt) ==
    CASE evt.type = "Close" ->
           IF ~self.close
           THEN [pe |-> [self EXCEPT !.close = TRUE], changed |-> TRUE]
           ELSE [pe |-> self, changed |-> FALSE]
      [] evt.type = "Refresh" ->
           IF ~self.refresh_decorations
           THEN [pe |-> [self EXCEPT !.refresh_decorations = TRUE], changed |-> TRUE]
           ELSE [pe |-> self, changed |-> FALSE]
      [] OTHER ->
           LET s1 == [self EXCEPT !.had_configure_event = TRUE]
               changed1 == IF IsSome(evt.new_size) THEN ~IsSome(self.configure) ELSE FALSE
               s2 == IF IsSome(evt.new_size)
                     THEN [s1 EXCEPT !.configure = evt.new_size]
                     ELSE s1
               keep == ~IsSome(self.full_screen) /\ ~evt.fullscreen
           IN IF keep
              THEN [pe |-> s2, changed |-> changed1]
              ELSE [pe |-> [s2 EXCEPT !.full_screen = Some(evt.fullscreen)],
                    changed |-> TRUE]

\* PendingEvent::queue: the aggregator after the merge, and `changed`.
PendingEvent_queue(self, evt) ==
    CASE evt.type = "Close" ->
           IF ~self.close
           THEN [pe |-> [self EXCEPT !.close = TRUE], changed |-> TRUE]
           ELSE [pe |-> self, changed |-> FALSE]
      [] evt.type = "Refresh" ->
           IF ~self.refresh_decorations
           THEN [pe |-> [self EXCEPT !.refresh_decorations = TRUE], changed |-> TRUE]
           ELSE [pe |-> self, changed |-> FALSE]
      [] OTHER ->
           LET s1 == [self EXCEPT !.had_configure_event = TRUE]
               changed1 == IF IsSome(evt.new_size) THEN ~IsSome(self.configure) ELSE TRUE
               s2 == IF IsSome(evt.new_size)
                     THEN [s1 EXCEPT !.configure = evt.new_size]
                     ELSE s1
               keep == ~IsSome(self.full_screen) /\ ~evt.fullscreen
           IN IF keep
              THEN [pe |-> s2, changed |-> changed1]
              ELSE [pe |-> [s2 EXCEPT !.full_screen = Some(evt.fullscreen)],
                    changed |-> TRUE]

(* ------------------------- WaylandWindowInner ------------------------- *)
Dimensions(pixel_width, pixel_height, dpi) ==
    [pixel_width |-> pixel_width, pixel_height |-> pixel_height, dpi |-> dpi]

\* The WaylandWindowInner that new_window builds, with the counts of the
\* application callbacks invoked on it (callbacks: Box<dyn WindowCallbacks>).
\* surface_size is the size the toolkit window was last given (create_window,
\* window.resize); sc_desc is the width and height of gpu_context.sc_desc;
\* last_resize is
\* what the last resize callback was given, with the operations of that
\* configure on the GPU context in the order they were made.
NewInner(size) ==
    [window |-> TRUE,
     dimensions |-> Dimensions(size[1], size[2], DEFAULT_DPI),
     initial_size |-> size,
     surface_size |-> size,
     need_paint |-> TRUE,
     full_screen |-> FALSE,
     gpu_context |-> FALSE,
     sc_desc |-> None,
     n_destroy |-> 0, n_created |-> 0, n_resize |-> 0, n_render |-> 0,
     n_negotiate |-> 0,
     n_can_close |-> 0, last_can_close |-> None,
     last_resize |-> None,
     selection |-> None]

\* What one closure run on a window's state leaves behind: the state, whether
\* a callback called terminate_message_loop, whether the thread panicked, the
\* bridge calls the closure made, what its paint with a GPU context did, and
\* whether it started a thread (std::thread::spawn).
Exec(inner) ==
    [inner |-> inner, terminate |-> FALSE, panicked |-> FALSE, nested |-> <<>>,
     paint |-> None, spawned |-> FALSE]

get_dpi_factor(inner) == inner.dimensions.dpi \div DEFAULT_DPI

surface_to_pixels(inner, surface) == surface * get_dpi_factor(inner)

\* ((pixels as f64) / (factor as f64)).ceil()
pixels_to_surface(inner, pixels) ==
    LET f == get_dpi_factor(inner) IN (pixels + f - 1) \div f

\* swap_chain.get_current_frame(), and again after the swap chain is recreated
FrameOutcomes == {"ok", "lost_once", "lost_twice"}
\* enable_wgpu: request_adapter / request_device fail, or `created` fails
NegotiateOutcomes == {"ok", "no_adapter", "created_err"}

\* What one do_paint with a GPU context did: calls of get_current_frame,
\* calls of create_swap_chain, calls of the render callback.
Paint(acquires, recreations, renders) ==
    Some([acquires |-> acquires, recreations |-> recreations, renders |-> renders])

\* A paint that gives up at the first frame that cannot be acquired.
do_paint_no_retry(x, frame) ==
    IF x.panicked \/ ~x.inner.gpu_context
    THEN x
    ELSE IF frame # "ok"
         THEN [x EXCEPT !.panicked = TRUE, !.paint = Paint(1, 0, 0)]
         ELSE [x EXCEPT !.inner.n_render = @ + 1, !.inner.need_paint = FALSE,
                        !.paint = Paint(1, 0, 1)]

\* A paint that calls render and leaves need_paint as it was.
do_paint_keeps_flag(x, frame) ==
    IF x.panicked \/ ~x.inner.gpu_context
    THEN x
    ELSE IF frame = "ok"
         THEN [x EXCEPT !.inner.n_render = @ + 1, !.paint = Paint(1, 0, 1)]
         ELSE IF frame = "lost_once"
              THEN [x EXCEPT !.inner.n_render = @ + 1, !.paint = Paint(2, 1, 1)]
              ELSE [x EXCEPT !.panicked = TRUE, !.paint = Paint(2, 1, 0)]

\* WaylandWindowInner::do_paint: with a context, acquire a frame (recreate the
\* swap chain and try once more if that fails, panic if it fails again), call
\* render and clear need_paint; without one, nothing but refresh_frame.
do_paint(x, frame) ==
    IF x.panicked \/ ~x.inner.gpu_context
    THEN x
    ELSE IF frame = "ok"
         THEN [x EXCEPT !.inner.n_render = @ + 1, !.inner.need_paint = FALSE,
                        !.paint = Paint(1, 0, 1)]
         ELSE IF frame = "lost_once"
              THEN [x EXCEPT !.inner.n_render = @ + 1, !.inner.need_paint = FALSE,
                             !.paint = Paint(2, 1, 1)]
              ELSE [x EXCEPT !.panicked = TRUE, !.paint = Paint(2, 1, 0)]

invalidate(x, frame) ==
    IF x.panicked THEN x
    ELSE do_paint([x EXCEPT !.inner.need_paint = TRUE], frame)

\* wgpu::SwapChainDescriptor { width, height, .. } of a window's dimensions
SwapChainDescriptor(d) == Some(<<d.pixel_width, d.pixel_height>>)

\* The resize callback and what the configure arm does to the GPU context
\* around it.
GpuResizeOps == <<"sc_desc", "resize", "create_swap_chain">>
PlainResizeOps == <<"resize">>

\* block_on(self.enable_wgpu()).unwrap()
enable_wgpu(x, outcome) ==
    IF x.panicked THEN x
    ELSE CASE outcome = "no_adapter" ->
                [x EXCEPT !.inner.n_negotiate = @ + 1, !.panicked = TRUE]
           [] outcome = "created_err" ->
                [x EXCEPT !.inner.n_negotiate = @ + 1, !.inner.gpu_context = TRUE,
                          !.inner.sc_desc = SwapChainDescriptor(x.inner.dimensions),
                          !.inner.n_created = @ + 1, !.panicked = TRUE]
           [] OTHER ->
                [x EXCEPT !.inner.n_negotiate = @ + 1, !.inner.gpu_context = TRUE,
                          !.inner.sc_desc = SwapChainDescriptor(x.inner.dimensions),
                          !.inner.n_created = @ + 1]

\* The configure arm calling resize before self.dimensions is assigned.
apply_configure_stale(x, size, factor, frame) ==
    LET pixel_width == surface_to_pixels(x.inner, size[1])
        pixel_height == surface_to_pixels(x.inner, size[2])
        new_dimensions == Dimensions(pixel_width, pixel_height, factor * DEFAULT_DPI)
        resized ==
            IF new_dimensions # x.inner.dimensions
            THEN [x EXCEPT !.inner.dimensions = new_dimensions,
                           !.inner.sc_desc =
                               IF x.inner.gpu_context
                               THEN Some(<<pixel_width, pixel_height>>)
                               ELSE @,
                           !.inner.n_resize = @ + 1,
                           !.inner.last_resize =
                               Some([dimensions |-> x.inner.dimensions,
                                     full_screen |-> x.inner.full_screen,
                                     ops |-> IF x.inner.gpu_context
                                             THEN GpuResizeOps
                                             ELSE PlainResizeOps])]
            ELSE x
    IN do_paint([resized EXCEPT !.inner.surface_size = size,
                                !.inner.need_paint = TRUE], frame)

\* The configure arm leaving the GPU context alone until resize has returned.
apply_configure_late_geometry(x, size, factor, frame) ==
    LET pixel_width == surface_to_pixels(x.inner, size[1])
        pixel_height == surface_to_pixels(x.inner, size[2])
        new_dimensions == Dimensions(pixel_width, pixel_height, factor * DEFAULT_DPI)
        resized ==
            IF new_dimensions # x.inner.dimensions
            THEN [x EXCEPT !.inner.dimensions = new_dimensions,
                           !.inner.sc_desc =
                               IF x.inner.gpu_context
                               THEN Some(<<pixel_width, pixel_height>>)
                               ELSE @,
                           !.inner.n_resize = @ + 1,
                           !.inner.last_resize =
                               Some([dimensions |-> new_dimensions,
                                     full_screen |-> x.inner.full_screen,
                                     ops |-> IF x.inner.gpu_context
                                             THEN <<"resize", "sc_desc", "create_swap_chain">>
                                             ELSE PlainResizeOps])]
            ELSE x
    IN do_paint([resized EXCEPT !.inner.surface_size = size,
                                !.inner.need_paint = TRUE], frame)

\* The `if let Some((w, h)) = pending.configure.take()` arm for a live window.
apply_configure(x, size, factor, frame) ==
    LET pixel_width == surface_to_pixels(x.inner, size[1])
        pixel_height == surface_to_pixels(x.inner, size[2])
        new_dimensions == Dimensions(pixel_width, pixel_height, factor * DEFAULT_DPI)
        resized ==
            IF new_dimensions # x.inner.dimensions
            THEN [x EXCEPT !.inner.dimensions = new_dimensions,
                           !.inner.sc_desc =
                               IF x.inner.gpu_context
                               THEN Some(<<pixel_width, pixel_height>>)
                               ELSE @,
                           !.inner.n_resize = @ + 1,
                           !.inner.last_resize =
                               Some([dimensions |-> new_dimensions,
                                     full_screen |-> x.inner.full_screen,
                                     ops |-> IF x.inner.gpu_context
                                             THEN GpuResizeOps
                                             ELSE PlainResizeOps])]
            ELSE x
    IN do_paint([resized EXCEPT !.inner.surface_size = size,
                                !.inner.need_paint = TRUE], frame)

\* WindowOpsMut::close: self.callbacks.destroy(); self.window.take()
close(x, env) ==
    [x EXCEPT !.inner.n_destroy = @ + 1,
              !.inner.window = FALSE,
              !.terminate = @ \/ env.destroy_terminates]

\* The close step destroying the window whatever can_close answers.
close_if_allowed_unasked(x, pending, env) ==
    IF pending.close
    THEN close([x EXCEPT !.inner.n_can_close = @ + 1,
                         !.inner.last_can_close = Some(env.can_close)], env)
    ELSE x

\* The close step calling destroy but keeping the platform window.
close_if_allowed_keeps_window(x, pending, env) ==
    IF pending.close
    THEN LET asked == [x EXCEPT !.inner.n_can_close = @ + 1,
                                !.inner.last_can_close = Some(env.can_close)]
         IN IF env.can_close
            THEN [asked EXCEPT !.inner.n_destroy = @ + 1,
                               !.terminate = @ \/ env.destroy_terminates]
            ELSE asked
    ELSE x

\* `if pending.close && self.callbacks.can_close() { destroy(); window.take() }`
close_if_allowed(x, pending, env) ==
    IF pending.close
    THEN LET asked == [x EXCEPT !.inner.n_can_close = @ + 1,
                                !.inner.last_can_close = Some(env.can_close)]
         IN IF env.can_close
            THEN [asked EXCEPT !.inner.n_destroy = @ + 1,
                               !.inner.window = FALSE,
                               !.terminate = @ \/ env.destroy_terminates]
            ELSE asked
    ELSE x

\* dispatch_pending_event without the invalidate that follows enable_wgpu.
dispatch_pending_event_no_invalidate(x, pending, factor, env) ==
    LET closed == close_if_allowed(x, pending, env)
        fs ==
            IF IsSome(pending.full_screen)
            THEN [closed EXCEPT !.inner.full_screen = Unwrap(pending.full_screen)]
            ELSE closed
        configure ==
            IF ~IsSome(pending.configure) /\ IsSome(pending.dpi)
            THEN Some(<<pixels_to_surface(fs.inner, fs.inner.dimensions.pixel_width),
                        pixels_to_surface(fs.inner, fs.inner.dimensions.pixel_height)>>)
            ELSE pending.configure
        configured ==
            IF IsSome(configure) /\ fs.inner.window
            THEN apply_configure(fs, Unwrap(configure), factor, env.frame1)
            ELSE fs
    IN IF /\ pending.had_configure_event
          /\ configured.inner.window
          /\ ~configured.inner.gpu_context
          /\ ~configured.panicked
       THEN enable_wgpu(configured, env.negotiate)
       ELSE configured

\* A drain that negotiates a context at every Configure.
dispatch_pending_event_renegotiates(x, pending, factor, env) ==
    LET closed == close_if_allowed(x, pending, env)
        fs ==
            IF IsSome(pending.full_screen)
            THEN [closed EXCEPT !.inner.full_screen = Unwrap(pending.full_screen)]
            ELSE closed
        configure ==
            IF ~IsSome(pending.configure) /\ IsSome(pending.dpi)
            THEN Some(<<pixels_to_surface(fs.inner, fs.inner.dimensions.pixel_width),
                        pixels_to_surface(fs.inner, fs.inner.dimensions.pixel_height)>>)
            ELSE pending.configure
        configured ==
            IF IsSome(configure) /\ fs.inner.window
            THEN apply_configure(fs, Unwrap(configure), factor, env.frame1)
            ELSE fs
    IN IF /\ pending.had_configure_event
          /\ configured.inner.window
          /\ ~configured.panicked
       THEN invalidate(enable_wgpu(configured, env.negotiate), env.frame2)
       ELSE configured

\* WaylandWindowInner::dispatch_pending_event on the snapshot `pending`.
dispatch_pending_event(x, pending, factor, env) ==
    LET closed == close_if_allowed(x, pending, env)
        fs ==
            IF IsSome(pending.full_screen)
            THEN [closed EXCEPT !.inner.full_screen = Unwrap(pending.full_screen)]
            ELSE closed
        configure ==
            IF ~IsSome(pending.configure) /\ IsSome(pending.dpi)
            THEN Some(<<pixels_to_surface(fs.inner, fs.inner.dimensions.pixel_width),
                        pixels_to_surface(fs.inner, fs.inner.dimensions.pixel_height)>>)
            ELSE pending.configure
        configured ==
            IF IsSome(configure) /\ fs.inner.window
            THEN apply_configure(fs, Unwrap(configure), factor, env.frame1)
            ELSE fs
    IN IF /\ pending.had_configure_event
          /\ configured.inner.window
          /\ ~configured.inner.gpu_context
          /\ ~configured.panicked
       THEN invalidate(enable_wgpu(configured, env.negotiate), env.frame2)
       ELSE configured

(* ------------------------------ TimerList ----------------------------- *)
\* A TimerEntry: when it is due, its interval, and when its callback was last
\* called.
TimerEntry(due, interval) == [due |-> due, interval |-> interval, last |-> None]
Counted(n) == IF n > MaxFired THEN MaxFired ELSE n

\* TimerList::run_ready: every entry that is due fires and is re-armed.
run_ready(ts, t) ==
    [i \in DOMAIN ts |->
        IF ts[i].due <= t
        THEN [ts[i] EXCEPT !.due = t + ts[i].interval, !.last = Some(t)]
        ELSE ts[i]]

ready_count(ts, t) == Cardinality({i \in DOMAIN ts : ts[i].due <= t})

\* A list that reports how far the earliest due time is from t, late or not.
time_until_due_unclamped(ts, t) ==
    IF ts = <<>> THEN None
    ELSE LET m == CHOOSE i \in DOMAIN ts : \A j \in DOMAIN ts : ts[i].due <= ts[j].due
         IN Some(ts[m].due - t)

\* TimerList::time_until_due
time_until_due(ts, t) ==
    IF ts = <<>> THEN None
    ELSE LET rem(i) == IF ts[i].due > t THEN ts[i].due - t ELSE 0
             m == CHOOSE i \in DOMAIN ts : \A j \in DOMAIN ts : rem(i) <= rem(j)
         IN Some(rem(m))

(* ------------------------ SPAWN_QUEUE and bridge ---------------------- *)
\* A with_window_inner call: the window id, the closure (`kind`, the value it
\* returns, whether it calls back into the bridge), the calling thread (0 is
\* the loop thread), and what happened to the task, the closure and the
\* promise. A call is named <<thread, n>>: the thread's n-th call.
LoopThread == 0
Threads == {LoopThread} \cup Producers
Call(win, kind, ret, nest, src) ==
    [win |-> win, kind |-> kind, ret |-> ret, nest |-> nest, src |-> src,
     runs |-> 0, invoked |-> 0, resolved |-> 0, fut |-> "pending"]
\* A set_clipboard call: its closure captures `text` (here its length).
SetClipboardCall(win, text, src) ==
    [win |-> win, kind |-> "set_clipboard", ret |-> "ok", nest |-> FALSE, src |-> src,
     text |-> text,
     runs |-> 0, invoked |-> 0, resolved |-> 0, fut |-> "pending"]

\* SpawnQueue: spawn_into_main_thread appends the task and signals the wake
\* source.
spawn_into_main_thread(b, call) ==
    [calls |-> [b.calls EXCEPT ![call.src] = Append(@, call)],
     queue |-> Append(b.queue, <<call.src, Len(b.calls[call.src]) + 1>>),
     wake |-> TRUE]

\* with_window_inner that runs the closure inside the call when the caller
\* is the loop thread.
with_window_inner_inline(b, call) ==
    IF call.src = LoopThread
    THEN [b EXCEPT !.calls[call.src] =
                       Append(@, [call EXCEPT !.runs = 1, !.invoked = 1,
                                              !.resolved = 1, !.fut = call.ret])]
    ELSE spawn_into_main_thread(b, call)

\* with_window_inner that drops the task handle without detach(): the task is
\* cancelled.
with_window_inner_undetached(b, call) ==
    [b EXCEPT !.calls[call.src] = Append(@, call)]

\* with_window_inner whose task goes to the front of the queue.
with_window_inner_lifo(b, call) ==
    [calls |-> [b.calls EXCEPT ![call.src] = Append(@, call)],
     queue |-> <<<<call.src, Len(b.calls[call.src]) + 1>>>> \o b.queue,
     wake |-> TRUE]

\* WaylandConnection::with_window_inner on the bridge state b = [calls, queue,
\* wake]: make the promise, spawn the task, return the future.
with_window_inner(b, call) == spawn_into_main_thread(b, call)
\* A set_inner_size call: its closure captures width and height (pixels).
SetInnerSizeCall(win, size, src) ==
    [win |-> win, kind |-> "set_inner_size", ret |-> "ok", nest |-> FALSE, src |-> src,
     size |-> size,
     runs |-> 0, invoked |-> 0, resolved |-> 0, fut |-> "pending"]

Bridge == [calls |-> calls, queue |-> SPAWN_QUEUE, wake |-> wake]

CallOf(c) == calls[c[1]][c[2]]
\* The calls made so far.
Made == UNION {{<<t, n>> : n \in 1..Len(calls[t])} : t \in Threads}

\* Promise::result
promise_result(cs, c, value) ==
    [cs EXCEPT ![c[1]][c[2]].resolved = @ + 1,
               ![c[1]][c[2]].fut = IF @ = "pending" THEN value ELSE @]

\* The closure of set_clipboard: a data source whose Send handler writes
\* `text` is created, offered and made the selection.
set_selection(x, text) == [x EXCEPT !.inner.selection = Some(text)]

\* read_pipe_with_timeout of the reader thread: each poll sees data, the end
\* of the data, nothing for 3000 ms, or the read fails; the bytes read may
\* not be UTF-8. Reading more data leaves the thread where it is.
ReadOutcomes == {"eof", "bad_utf8", "timed_out", "read_err"}
\* The reader thread of one get_clipboard and the promise it holds.
Reading == [fut |-> "pending", read |-> "reading"]
\* The closure returned at `get_clipboard_data()?` and was dropped with the
\* only handle of `promise`: nothing is left that could resolve the future.
Dropped == [fut |-> "pending", read |-> "dropped"]
\* A reader that hands over what it has read when the pipe goes quiet.
read_pipe_with_timeout_partial(outcome) ==
    [fut |-> IF outcome \in {"eof", "timed_out"} THEN "ok" ELSE "err", read |-> outcome]
\* match read_pipe_with_timeout(read) { Ok => promise.ok, Err => promise.err }
read_pipe_with_timeout(outcome) ==
    [fut |-> IF outcome = "eof" THEN "ok" ELSE "err", read |-> outcome]

\* The closures that run dispatch_pending_event: the one the notification
\* handlers schedule, and WindowOpsMut::set_inner_size.
DrainKinds == {"dispatch", "set_inner_size"}

\* What dispatch_pending_event finds in the aggregator when `call` runs:
\* set_inner_size first replaces the buffered configure by the surface size
\* of the pixel size it was given.
pending_of(call, inner) ==
    IF call.kind = "set_inner_size"
    THEN [pending_event[call.win] EXCEPT
            !.configure = Some(<<pixels_to_surface(inner, call.size[1]),
                                 pixels_to_surface(inner, call.size[2])>>)]
    ELSE pending_event[call.win]

\* WindowOpsMut::show
show(x, env) ==
    IF ~x.inner.window \/ env.needs_configure
    THEN x
    ELSE do_paint(x, env.frame1)

\* The closure `f` of call c run on the window's state: what it leaves and
\* the anyhow::Result it returns.
closure(call, x, env) ==
    CASE call.kind \in DrainKinds ->
           [x |-> dispatch_pending_event(x, pending_of(call, x.inner), scale[call.win], env),
            result |-> "ok", drained |-> TRUE]
      [] call.kind = "show" ->
           [x |-> show(x, env), result |-> "ok", drained |-> FALSE]
      [] call.kind = "invalidate" ->
           [x |-> invalidate(x, env.frame1), result |-> "ok", drained |-> FALSE]
      [] call.kind = "close" ->
           [x |-> close(x, env), result |-> "ok", drained |-> FALSE]
      [] call.kind = "get_clipboard" ->
           \* get_clipboard_data()? and then std::thread::spawn of the reader;
           \* call.ret is what get_clipboard_data gives this call
           IF call.ret = "ok"
           THEN [x |-> [x EXCEPT !.spawned = TRUE], result |-> "ok", drained |-> FALSE]
           ELSE [x |-> x, result |-> "err", drained |-> FALSE]
      [] call.kind = "set_clipboard" ->
           [x |-> set_selection(x, call.text), result |-> "ok", drained |-> FALSE]
      [] OTHER ->
           \* WindowOps::apply: the application's func, which may use the
           \* &dyn WindowOps it is given (here: invalidate)
           [x |-> IF call.nest
                  THEN [x EXCEPT !.nested = Append(@, Call(call.win, "invalidate", "ok", FALSE, LoopThread))]
                  ELSE x,
            result |-> call.ret, drained |-> FALSE]

\* The task, resolving the promise only when f succeeded.
with_window_task_ok_only(c, env) ==
    LET call == calls[c[1]][c[2]]
        ran == [calls EXCEPT ![c[1]][c[2]].runs = @ + 1]
        b0 == [calls |-> ran, queue |-> Tail(SPAWN_QUEUE), wake |-> wake]
    IN IF call.win \notin DOMAIN windows
       THEN [bridge |-> b0, windows |-> windows, pending_event |-> pending_event,
             terminate |-> FALSE, panicked |-> FALSE, paint |-> None,
             spawned |-> FALSE]
       ELSE LET r == closure(call, Exec(windows[call.win]), env)
                invoked == [b0 EXCEPT !.calls[c[1]][c[2]].invoked = @ + 1]
                b1 == IF Len(r.x.nested) > 0
                      THEN with_window_inner(invoked, r.x.nested[1])
                      ELSE invoked
                b2 == IF r.x.panicked \/ r.result # "ok"
                      THEN b1
                      ELSE [b1 EXCEPT !.calls = promise_result(@, c, r.result)]
            IN [bridge |-> b2,
                windows |-> [windows EXCEPT ![call.win] = r.x.inner],
                pending_event |-> IF r.drained
                                  THEN [pending_event EXCEPT ![call.win] = PendingEvent_default]
                                  ELSE pending_event,
                terminate |-> r.x.terminate,
                panicked |-> r.x.panicked,
                paint |-> r.x.paint,
                    spawned |-> r.x.spawned]

\* The task, failing the promise when the window is not in the registry.
with_window_task_absent_err(c, env) ==
    LET call == calls[c[1]][c[2]]
        ran == [calls EXCEPT ![c[1]][c[2]].runs = @ + 1]
        b0 == [calls |-> ran, queue |-> Tail(SPAWN_QUEUE), wake |-> wake]
    IN IF call.win \notin DOMAIN windows
       THEN [bridge |-> [b0 EXCEPT !.calls = promise_result(@, c, "err")],
             windows |-> windows, pending_event |-> pending_event,
             terminate |-> FALSE, panicked |-> FALSE, paint |-> None,
             spawned |-> FALSE]
       ELSE LET r == closure(call, Exec(windows[call.win]), env)
                invoked == [b0 EXCEPT !.calls[c[1]][c[2]].invoked = @ + 1]
                b1 == IF Len(r.x.nested) > 0
                      THEN with_window_inner(invoked, r.x.nested[1])
                      ELSE invoked
                b2 == IF r.x.panicked
                      THEN b1
                      ELSE [b1 EXCEPT !.calls = promise_result(@, c, r.result)]
            IN [bridge |-> b2,
                windows |-> [windows EXCEPT ![call.win] = r.x.inner],
                pending_event |-> IF r.drained
                                  THEN [pending_event EXCEPT ![call.win] = PendingEvent_default]
                                  ELSE pending_event,
                terminate |-> r.x.terminate,
                panicked |-> r.x.panicked,
                paint |-> r.x.paint,
                    spawned |-> r.x.spawned]

\* The task with_window_inner spawned, run by the loop thread: look the window
\* up; if it is there, run f on it and resolve the promise with f's result.
with_window_task(c, env) ==
    LET call == calls[c[1]][c[2]]
        ran == [calls EXCEPT ![c[1]][c[2]].runs = @ + 1]
        b0 == [calls |-> ran, queue |-> Tail(SPAWN_QUEUE), wake |-> wake]
    IN IF call.win \notin DOMAIN windows
       THEN [bridge |-> b0, windows |-> windows, pending_event |-> pending_event,
             terminate |-> FALSE, panicked |-> FALSE, paint |-> None,
             spawned |-> FALSE]
       ELSE \* r is what f(inner) left and returned
            CHOOSE task \in
              {(LET invoked == [b0 EXCEPT !.calls[c[1]][c[2]].invoked = @ + 1]
                    b1 == IF Len(r.x.nested) > 0
                          THEN with_window_inner(invoked, r.x.nested[1])
                          ELSE invoked
                    b2 == IF r.x.panicked
                          THEN b1
                          ELSE [b1 EXCEPT !.calls = promise_result(@, c, r.result)]
                IN [bridge |-> b2,
                    windows |-> [windows EXCEPT ![call.win] = r.x.inner],
                    pending_event |-> IF r.drained
                                      THEN [pending_event EXCEPT ![call.win] = PendingEvent_default]
                                      ELSE pending_event,
                    terminate |-> r.x.terminate,
                    panicked |-> r.x.panicked,
                    paint |-> r.x.paint,
                    spawned |-> r.x.spawned]) :
               r \in {closure(call, Exec(windows[call.win]), env)}} : TRUE

\* The outcomes of the collaborators a closure may consult.
Envs(call) ==
    IF call.kind \in DrainKinds /\ call.win \in DOMAIN windows
    THEN LET p == pending_event[call.win]
             inner == windows[call.win]
             negotiates == p.had_configure_event /\ ~inner.gpu_context
         IN {e \in [can_close : IF p.close THEN BOOLEAN ELSE {FALSE},
                     destroy_terminates : IF p.close THEN BOOLEAN ELSE {FALSE},
                     negotiate : IF negotiates THEN NegotiateOutcomes ELSE {"ok"},
                     frame1 : IF inner.gpu_context THEN FrameOutcomes ELSE {"ok"},
                     frame2 : IF negotiates THEN FrameOutcomes ELSE {"ok"},
                     needs_configure : {TRUE}] :
                \* destroy is called only when can_close allowed it, and
                \* the repaint after the negotiation only when it succeeded
                /\ e.destroy_terminates => e.can_close
                /\ e.negotiate # "ok" => e.frame2 = "ok"}
    ELSE [can_close : {FALSE},
          destroy_terminates : IF call.kind = "close" /\ call.win \in DOMAIN windows
                               THEN BOOLEAN ELSE {FALSE},
          negotiate : {"ok"},
          frame1 : IF /\ call.kind \in {"invalidate", "show"}
                      /\ call.win \in DOMAIN windows
                      /\ windows[call.win].gpu_context
                   THEN FrameOutcomes ELSE {"ok"},
          frame2 : {"ok"},
          needs_configure : IF /\ call.kind = "show"
                               /\ call.win \in DOMAIN windows
                               /\ windows[call.win].window
                            THEN BOOLEAN ELSE {TRUE}]

(* ---------------------------- observations --------------------------- *)
\* qlog: the last two PendingEvent::queue calls on a window's aggregator since
\* it was last drained, each with the event given, the bool returned, and
\* whether a Close was queued before it since that drain.
Logged(log, evt, changed) ==
    LET close_before ==
            /\ Len(log) > 0
            /\ (log[Len(log)].evt = EvClose \/ log[Len(log)].close_before)
        e == [evt |-> evt, changed |-> changed, close_before |-> close_before]
    IN IF Len(log) < 2 THEN Append(log, e) ELSE <<log[2], e>>

\* batch: a run of Configure notifications that all carry the same size,
\* queued into an empty aggregator of a live window with nothing else in
\* between: its size, how many there were (2 stands for two or more), the
\* resize count when it began, the dimensions that size gives, and whether
\* the run has been drained.
BatchOff ==
    [phase |-> "off", size |-> InitialSize, k |-> 0, base |-> 0,
     expect |-> Dimensions(0, 0, 0), differs |-> FALSE]

BatchOnEvent(b, evt, pe, inner, factor) ==
    IF evt.type = "Configure" /\ IsSome(evt.new_size)
    THEN LET size == Unwrap(evt.new_size)
             expect == Dimensions(size[1] * factor, size[2] * factor, factor * DEFAULT_DPI)
         IN IF pe = PendingEvent_default
            THEN [phase |-> "open", size |-> size, k |-> 1, base |-> inner.n_resize,
                  expect |-> expect, differs |-> expect # inner.dimensions]
            ELSE IF b.phase = "open" /\ b.size = size
                 THEN [b EXCEPT !.k = 2]
                 ELSE BatchOff
    ELSE BatchOff

BatchOnDrain(b) ==
    IF b.phase \in {"open", "drained"} THEN [b EXCEPT !.phase = "drained"] ELSE BatchOff

\* fresh: "new" after new_window; "configured" once the only notification so
\* far is one Configure carrying the initial size, not fullscreen, at scale
\* factor 1; "drained" right after the drain of that; "off" otherwise.
FreshOnEvent(f, evt, inner, factor) ==
    IF /\ f = "new"
       /\ evt = EvConfigure(Some(inner.initial_size), FALSE)
       /\ factor = 1
    THEN "configured"
    ELSE "off"

FreshOnClosure(f, kind) ==
    CASE kind = "dispatch" -> IF f = "configured" THEN "drained" ELSE "off"
      [] kind \in {"invalidate", "close", "show", "set_inner_size"} -> "off"
      [] OTHER -> f

(* ------------------------------- Init --------------------------------- *)
\* What the environment does in one run: the producer threads make their
\* calls, or the compositor sends its notifications, or timers are scheduled
\* and one call is made whose closure may call the bridge again, or the
\* window is closed or the selection is set by a producer and the compositor
\* asks for it, while the display's socket gives transient errors, or
\* several windows are created, or producers call invalidate, show and
\* set_inner_size on a window that gets notifications.
Budgets ==
    {[prod |-> MaxProducerCalls, nest |-> FALSE, ev |-> 0, term |-> 0, timer |-> 0, send |-> 0, io |-> FALSE, close |-> FALSE, clip |-> FALSE, wins |-> 1, ops |-> FALSE],
     [prod |-> 0, nest |-> FALSE, ev |-> MaxEvents, term |-> 1, timer |-> 0, send |-> 0, io |-> FALSE, close |-> FALSE, clip |-> FALSE, wins |-> 1, ops |-> FALSE],
     [prod |-> 1, nest |-> TRUE, ev |-> 0, term |-> 0, timer |-> MaxTimers, send |-> 0, io |-> FALSE, close |-> FALSE, clip |-> FALSE, wins |-> 1, ops |-> FALSE],
     [prod |-> 2, nest |-> FALSE, ev |-> 0, term |-> 0, timer |-> 0, send |-> MaxSends,
      io |-> TRUE, close |-> TRUE, clip |-> TRUE, wins |-> 1, ops |-> FALSE],
     [prod |-> 1, nest |-> FALSE, ev |-> 0, term |-> 0, timer |-> 0, send |-> 0,
      io |-> FALSE, close |-> FALSE, clip |-> FALSE, wins |-> MaxWindows, ops |-> FALSE],
     [prod |-> 1, nest |-> FALSE, ev |-> 2, term |-> 0, timer |-> 0, send |-> 0,
      io |-> FALSE, close |-> FALSE, clip |-> FALSE, wins |-> 1, ops |-> TRUE]}

\* The smaller runs FairSpec follows.
FairBudgets ==
    {[prod |-> FairCalls, nest |-> FALSE, ev |-> 0, term |-> 0, timer |-> 0, send |-> 0, io |-> FALSE, close |-> FALSE, clip |-> FALSE, wins |-> 1, ops |-> FALSE],
     [prod |-> 0, nest |-> FALSE, ev |-> FairCalls, term |-> 1, timer |-> 0, send |-> 0, io |-> FALSE, close |-> FALSE, clip |-> FALSE, wins |-> 1, ops |-> FALSE],
     [prod |-> 1, nest |-> TRUE, ev |-> 0, term |-> 0, timer |-> 1, send |-> 0, io |-> FALSE, close |-> FALSE, clip |-> FALSE, wins |-> 1, ops |-> FALSE],
     [prod |-> 1, nest |-> FALSE, ev |-> 0, term |-> 0, timer |-> 0, send |-> 1,
      io |-> TRUE, close |-> TRUE, clip |-> TRUE, wins |-> 1, ops |-> FALSE],
     [prod |-> 1, nest |-> FALSE, ev |-> 1, term |-> 0, timer |-> 0, send |-> 0,
      io |-> FALSE, close |-> FALSE, clip |-> FALSE, wins |-> 1, ops |-> TRUE]}

InitWith(budgets) ==
    /\ pc = "start"
    /\ should_terminate = FALSE
    /\ period = 0
    /\ drain_left = 0
    /\ ran_any = FALSE
    /\ buf = 0
    /\ SPAWN_QUEUE = <<>>
    /\ wake = FALSE
    /\ timers = <<>>
    /\ now = 0
    /\ fired = 0
    /\ next_window_id = 1
    /\ windows = <<>>
    /\ pending_event = <<>>
    /\ scale = <<>>
    /\ calls = [t \in Threads |-> <<>>]
    /\ left \in budgets
    /\ qlog = <<>>
    /\ batch = <<>>
    /\ fresh = <<>>
    /\ term_at_call = FALSE
    /\ last_paint = None
    /\ last_io = None
    /\ clip_fut = <<>>
    /\ issued = <<>>

Init == InitWith(Budgets)
FairInit == InitWith(FairBudgets)

(* --------------------------- the loop thread -------------------------- *)
\* The result of an io call of the loop: which call, and Ok or the kind of
\* the io::Error.
IoResult(op, outcome) == Some([op |-> op, outcome |-> outcome])

\* WaylandConnection::flush: only an error other than WouldBlock fails.
FlushOutcomes == {"ok", "would_block", "interrupted", "error"}
flush(outcome) == outcome \in {"ok", "would_block"}

\* event_q.dispatch's io::Result, as run_message_loop treats it.
DispatchOutcomes == {"ok", "would_block", "interrupted", "error"}
\* A loop that goes on after any dispatch error.
dispatch_ok_any(outcome) == TRUE
dispatch_ok(outcome) == outcome # "error"

\* The results the display gives in this run: the transient kinds in the
\* runs that have them.
FlushResults == IF left.io THEN FlushOutcomes ELSE {"ok", "error"}
DispatchResults == IF left.io THEN DispatchOutcomes ELSE {"ok", "error"}

\* run_message_loop up to the loop: the first flush and insert_source.
LoopStart ==
    /\ pc = "start"
    /\ \E o \in FlushResults :
         /\ pc' = IF flush(o) THEN "top" ELSE "failed"
         /\ last_io' = IoResult("flush", o)
    /\ term_at_call' = should_terminate
    /\ UNCHANGED <<should_terminate, period, drain_left, ran_any>>
    /\ UNCHANGED <<queueVars, timerVars, winVars, left, qlog, batch, fresh, last_paint>>
    /\ UNCHANGED buf
    /\ UNCHANGED auxVars

\* A loop that leaves only once the queue of tasks is empty.
LoopTop_drains_first ==
    /\ pc = "top"
    /\ IF should_terminate /\ SPAWN_QUEUE = <<>>
       THEN /\ pc' = "exited"
            /\ windows' = <<>>
       ELSE /\ pc' = "timers"
            /\ UNCHANGED windows
    /\ last_io' = None
    /\ UNCHANGED <<should_terminate, period, drain_left, ran_any>>
    /\ UNCHANGED <<queueVars, timerVars, next_window_id, pending_event, scale, left>>
    /\ UNCHANGED <<qlog, batch, fresh, term_at_call, last_paint>>
    /\ UNCHANGED buf
    /\ UNCHANGED auxVars

\* `while !*self.should_terminate.borrow()`, and on exit windows.clear().
LoopTop ==
    /\ pc = "top"
    /\ IF should_terminate
       THEN /\ pc' = "exited"
            /\ windows' = <<>>
       ELSE /\ pc' = "timers"
            /\ UNCHANGED windows
    /\ last_io' = None
    /\ UNCHANGED <<should_terminate, period, drain_left, ran_any>>
    /\ UNCHANGED <<queueVars, timerVars, next_window_id, pending_event, scale, left>>
    /\ UNCHANGED <<qlog, batch, fresh, term_at_call, last_paint>>
    /\ UNCHANGED buf
    /\ UNCHANGED auxVars

\* self.timers.borrow_mut().run_ready()
LoopTimers ==
    /\ pc = "timers"
    /\ timers' = run_ready(timers, now)
    /\ fired' = Counted(fired + ready_count(timers, now))
    /\ pc' = "spawn"
    /\ UNCHANGED <<should_terminate, period, drain_left, ran_any, now>>
    /\ UNCHANGED <<queueVars, winVars, left, obsVars>>
    /\ UNCHANGED buf
    /\ UNCHANGED auxVars

\* SPAWN_QUEUE.run() is entered: it will run the tasks present now.
LoopSpawnBegin ==
    /\ pc = "spawn"
    /\ drain_left' = Len(SPAWN_QUEUE)
    /\ ran_any' = FALSE
    /\ pc' = "running"
    /\ UNCHANGED <<should_terminate, period>>
    /\ UNCHANGED <<queueVars, timerVars, winVars, left, obsVars>>
    /\ UNCHANGED buf
    /\ UNCHANGED auxVars

\* SPAWN_QUEUE.run() pops the oldest task and runs it.
LoopRunTask ==
    /\ pc = "running"
    /\ drain_left > 0
    /\ \E env \in Envs(CallOf(Head(SPAWN_QUEUE))) :
       \E r \in {with_window_task(Head(SPAWN_QUEUE), env)} :
         /\ calls' = r.bridge.calls
         /\ SPAWN_QUEUE' = r.bridge.queue
         /\ wake' = r.bridge.wake
         /\ windows' = r.windows
         /\ pending_event' = r.pending_event
         /\ should_terminate' = (should_terminate \/ r.terminate)
         /\ pc' = IF r.panicked THEN "panicked" ELSE pc
         /\ last_paint' = r.paint
         /\ clip_fut' = IF r.spawned
                        THEN (Head(SPAWN_QUEUE) :> Reading) @@ clip_fut
                        ELSE IF /\ CallOf(Head(SPAWN_QUEUE)).kind = "get_clipboard"
                                /\ CallOf(Head(SPAWN_QUEUE)).win \in DOMAIN windows
                             THEN (Head(SPAWN_QUEUE) :> Dropped) @@ clip_fut
                             ELSE clip_fut
    /\ LET call == CallOf(Head(SPAWN_QUEUE))
           w == call.win
       IN IF w \in DOMAIN windows
          THEN /\ qlog' = IF call.kind \in DrainKinds THEN [qlog EXCEPT ![w] = <<>>] ELSE qlog
               /\ batch' = IF call.kind = "dispatch"
                           THEN [batch EXCEPT ![w] = BatchOnDrain(@)]
                           ELSE IF call.kind = "set_inner_size"
                                THEN [batch EXCEPT ![w] = BatchOff]
                                ELSE batch
               /\ fresh' = [fresh EXCEPT ![w] = FreshOnClosure(@, call.kind)]
          ELSE UNCHANGED <<qlog, batch, fresh>>
    /\ UNCHANGED <<term_at_call, last_io>>
    /\ drain_left' = drain_left - 1
    /\ ran_any' = TRUE
    /\ UNCHANGED <<period, timerVars, next_window_id, scale, left>>
    /\ UNCHANGED buf
    /\ UNCHANGED issued

\* A period that looks at the timers only, whatever the drain did.
next_period_timers_only(ran, ts, t) ==
    LET d == time_until_due(ts, t)
    IN IF IsSome(d) THEN Unwrap(d) ELSE FALLBACK_PERIOD_MS

\* `let period = if SPAWN_QUEUE.run() { 0 } else { time_until_due(now)
\* .unwrap_or(2500 ms) }`
next_period(ran, ts, t) ==
    IF ran
    THEN 0
    ELSE LET d == time_until_due(ts, t)
         IN IF IsSome(d) THEN Unwrap(d) ELSE FALLBACK_PERIOD_MS

\* SPAWN_QUEUE.run() returns whether it ran a task; the wait period is chosen.
LoopSpawnEnd ==
    /\ pc = "running"
    /\ drain_left = 0
    /\ wake' = FALSE
    /\ period' = next_period(ran_any, timers, now)
    /\ pc' = "flush"
    /\ ran_any' = FALSE
    /\ last_paint' = None
    /\ UNCHANGED <<should_terminate, drain_left, SPAWN_QUEUE, calls>>
    /\ UNCHANGED <<timerVars, winVars, left, qlog, batch, fresh, term_at_call, last_io>>
    /\ UNCHANGED buf
    /\ UNCHANGED auxVars

\* self.flush()?
LoopFlush ==
    /\ pc = "flush"
    /\ \E o \in FlushResults :
         /\ pc' = IF flush(o) THEN "dispatch" ELSE "failed"
         /\ last_io' = IoResult("flush", o)
    /\ UNCHANGED <<should_terminate, period, drain_left, ran_any>>
    /\ UNCHANGED <<queueVars, timerVars, winVars, left, qlog, batch, fresh, term_at_call, last_paint>>
    /\ UNCHANGED buf
    /\ UNCHANGED auxVars

\* event_q.dispatch that waits for the queue's wake signal, without a timeout.
LoopDispatchReturn_needs_wake ==
    /\ pc = "dispatch"
    /\ wake
    /\ \E o \in DispatchResults :
         /\ pc' = IF dispatch_ok(o) THEN "top" ELSE "failed"
         /\ last_io' = IoResult("dispatch", o)
    /\ \E elapsed \in (IF timers = <<>> THEN {0} ELSE {0, period}) :
         /\ now + elapsed <= MaxNow
         /\ now' = now + elapsed
    /\ period' = 0
    /\ UNCHANGED <<should_terminate, drain_left, ran_any>>
    /\ UNCHANGED <<queueVars, timers, fired, winVars, left, qlog, batch, fresh, term_at_call, last_paint>>
    /\ UNCHANGED buf
    /\ UNCHANGED auxVars

\* A dispatch whose timers are an event source of the wait: the due ones fire
\* before it returns.
LoopDispatchReturn_fires_timers ==
    /\ pc = "dispatch"
    /\ \E o \in DispatchResults :
         /\ pc' = IF dispatch_ok(o) THEN "top" ELSE "failed"
         /\ last_io' = IoResult("dispatch", o)
    /\ \E elapsed \in (IF timers = <<>> THEN {0} ELSE {0, period}) :
         /\ now + elapsed <= MaxNow
         /\ now' = now + elapsed
    /\ timers' = run_ready(timers, now')
    /\ fired' = Counted(fired + ready_count(timers, now'))
    /\ period' = 0
    /\ UNCHANGED <<should_terminate, drain_left, ran_any>>
    /\ UNCHANGED <<queueVars, winVars, left, qlog, batch, fresh, term_at_call, last_paint>>
    /\ UNCHANGED buf
    /\ UNCHANGED auxVars

\* event_q.dispatch(Some(period)) returns: the wait is over and the ready
\* protocol events have been dispatched. `period` ends with the iteration.
LoopDispatchReturn ==
    /\ pc = "dispatch"
    /\ \E o \in DispatchResults :
         /\ pc' = IF dispatch_ok(o) THEN "top" ELSE "failed"
         /\ last_io' = IoResult("dispatch", o)
    /\ \E elapsed \in (IF timers = <<>> THEN {0} ELSE {0, period}) :
         /\ now + elapsed <= MaxNow
         /\ now' = now + elapsed
    /\ period' = 0
    /\ UNCHANGED <<should_terminate, drain_left, ran_any>>
    /\ UNCHANGED <<queueVars, timers, fired, winVars, left, qlog, batch, fresh, term_at_call, last_paint>>
    /\ UNCHANGED buf
    /\ UNCHANGED auxVars

(* ------------------- protocol events (inside dispatch) ---------------- *)
\* The closure given to create_window: queue the event, and schedule a drain
\* if the aggregator says it changed.
WindowEvent(w, evt) ==
    /\ pc = "dispatch"
    /\ left.ev > 0
    /\ w \in DOMAIN windows
    /\ windows[w].window
    /\ LET q == PendingEvent_queue(pending_event[w], evt)
           b == IF q.changed
                THEN with_window_inner(Bridge, Call(w, "dispatch", "ok", FALSE, LoopThread))
                ELSE Bridge
       IN /\ pending_event' = [pending_event EXCEPT ![w] = q.pe]
          /\ calls' = b.calls
          /\ SPAWN_QUEUE' = b.queue
          /\ wake' = b.wake
          /\ qlog' = [qlog EXCEPT ![w] = Logged(@, evt, q.changed)]
    /\ batch' = [batch EXCEPT ![w] =
                    BatchOnEvent(@, evt, pending_event[w], windows[w], scale[w])]
    /\ fresh' = [fresh EXCEPT ![w] = FreshOnEvent(@, evt, windows[w], scale[w])]
    /\ left' = [left EXCEPT !.ev = @ - 1]
    /\ UNCHANGED <<loopVars, timerVars, next_window_id, windows, scale>>
    /\ UNCHANGED <<term_at_call, last_paint, last_io>>
    /\ UNCHANGED auxVars

\* The scale callback given to create_surface_with_scale_callback.
ScaleEvent(w, dpi) ==
    /\ pc = "dispatch"
    /\ left.ev > 0
    /\ w \in DOMAIN windows
    /\ dpi # scale[w]
    /\ scale' = [scale EXCEPT ![w] = dpi]
    /\ pending_event' = [pending_event EXCEPT ![w].dpi = Some(dpi)]
    /\ LET b == with_window_inner(Bridge, Call(w, "dispatch", "ok", FALSE, LoopThread))
       IN /\ calls' = b.calls
          /\ SPAWN_QUEUE' = b.queue
          /\ wake' = b.wake
    /\ batch' = [batch EXCEPT ![w] = BatchOff]
    /\ fresh' = [fresh EXCEPT ![w] = "off"]
    /\ left' = [left EXCEPT !.ev = @ - 1]
    /\ UNCHANGED <<loopVars, timerVars, next_window_id, windows, qlog>>
    /\ UNCHANGED <<term_at_call, last_paint, last_io>>
    /\ UNCHANGED auxVars

(* ------------------------ the application's calls --------------------- *)
\* A counter that is read without being advanced.
fetch_add_none(v) == [id |-> v, next |-> v]
\* WaylandConnection::next_window_id: self.next_window_id.fetch_add(1, Relaxed)
fetch_add(v) == [id |-> v, next |-> v + 1]
\* The windows the threads of this run name in their calls.
Targets == 1..left.wins

\* Code of the application runs on the loop thread before run_message_loop
\* is called or inside a task of the drain.
OnLoopThread == pc = "start" \/ (pc = "running" /\ ran_any)

\* WaylandWindow::new_window, on the loop thread (before the loop or from a
\* task); create_window may fail after the id was taken.
NewWindow(size, ok) ==
    /\ OnLoopThread
    /\ next_window_id <= left.wins
    /\ next_window_id' = fetch_add(next_window_id).next
    /\ issued' = Append(issued, fetch_add(next_window_id).id)
    /\ IF ok
       THEN /\ windows' = (next_window_id :> NewInner(size)) @@ windows
            /\ pending_event' = (next_window_id :> PendingEvent_default) @@ pending_event
            /\ scale' = (next_window_id :> 1) @@ scale
            /\ qlog' = (next_window_id :> <<>>) @@ qlog
            /\ batch' = (next_window_id :> BatchOff) @@ batch
            /\ fresh' = (next_window_id :> "new") @@ fresh
       ELSE UNCHANGED <<windows, pending_event, scale, qlog, batch, fresh>>
    /\ UNCHANGED <<loopVars, queueVars, timerVars, left, term_at_call, last_paint, last_io>>
    /\ UNCHANGED clip_fut

\* ConnectionOps::terminate_message_loop, called on the loop thread before
\* run_message_loop or from a task.
TerminateMessageLoop ==
    /\ OnLoopThread
    /\ left.term > 0
    /\ should_terminate' = TRUE
    /\ left' = [left EXCEPT !.term = @ - 1]
    /\ UNCHANGED <<pc, period, drain_left, ran_any>>
    /\ UNCHANGED <<queueVars, timerVars, winVars, obsVars>>
    /\ UNCHANGED buf
    /\ UNCHANGED auxVars

\* A timer that is first due one interval after its insertion.
schedule_timer_after_interval(ts, t, interval) ==
    Append(ts, TimerEntry(t + interval, interval))

\* ConnectionOps::schedule_timer, on the loop thread (before the loop or from
\* a task): the entry is due immediately.
schedule_timer(ts, t, interval) == Append(ts, TimerEntry(t, interval))

ScheduleTimer(interval) ==
    /\ OnLoopThread
    /\ left.timer > 0
    /\ timers' = schedule_timer(timers, now, interval)
    /\ left' = [left EXCEPT !.timer = @ - 1]
    /\ UNCHANGED <<loopVars, queueVars, now, fired, winVars, obsVars>>
    /\ UNCHANGED auxVars

\* WindowOps::apply from producer thread p: with_window_inner with the
\* application's closure.
ProducerApply(p, w, ret, nest) ==
    /\ left.prod > 0
    /\ nest => (left.nest /\ ret = "ok")
    /\ LET b == with_window_inner(Bridge, Call(w, "apply", ret, nest, p))
       IN /\ calls' = b.calls
          /\ SPAWN_QUEUE' = b.queue
          /\ wake' = b.wake
    /\ left' = [left EXCEPT !.prod = @ - 1]
    /\ UNCHANGED <<loopVars, timerVars, winVars, obsVars>>
    /\ UNCHANGED auxVars

\* WindowOps::close from producer thread p.
ProducerClose(p, w) ==
    /\ left.prod > 0
    /\ left.close
    /\ LET b == with_window_inner(Bridge, Call(w, "close", "ok", FALSE, p))
       IN /\ calls' = b.calls
          /\ SPAWN_QUEUE' = b.queue
          /\ wake' = b.wake
    /\ left' = [left EXCEPT !.prod = @ - 1]
    /\ UNCHANGED <<loopVars, timerVars, winVars, obsVars>>
    /\ UNCHANGED auxVars

\* WindowOps::invalidate from producer thread p.
ProducerInvalidate(p, w) ==
    /\ left.prod > 0
    /\ left.ops
    /\ LET b == with_window_inner(Bridge, Call(w, "invalidate", "ok", FALSE, p))
       IN /\ calls' = b.calls
          /\ SPAWN_QUEUE' = b.queue
          /\ wake' = b.wake
    /\ left' = [left EXCEPT !.prod = @ - 1]
    /\ UNCHANGED <<loopVars, timerVars, winVars, obsVars>>
    /\ UNCHANGED auxVars

\* WindowOps::show from producer thread p.
ProducerShow(p, w) ==
    /\ left.prod > 0
    /\ left.ops
    /\ LET b == with_window_inner(Bridge, Call(w, "show", "ok", FALSE, p))
       IN /\ calls' = b.calls
          /\ SPAWN_QUEUE' = b.queue
          /\ wake' = b.wake
    /\ left' = [left EXCEPT !.prod = @ - 1]
    /\ UNCHANGED <<loopVars, timerVars, winVars, obsVars>>
    /\ UNCHANGED auxVars

\* WindowOps::set_inner_size(width, height) from producer thread p.
ProducerSetInnerSize(p, w, size) ==
    /\ left.prod > 0
    /\ left.ops
    /\ LET b == with_window_inner(Bridge, SetInnerSizeCall(w, size, p))
       IN /\ calls' = b.calls
          /\ SPAWN_QUEUE' = b.queue
          /\ wake' = b.wake
    /\ left' = [left EXCEPT !.prod = @ - 1]
    /\ UNCHANGED <<loopVars, timerVars, winVars, obsVars>>
    /\ UNCHANGED auxVars

\* WindowOps::set_clipboard from producer thread p.
ProducerSetClipboard(p, w, text) ==
    /\ left.prod > 0
    /\ left.send > 0
    /\ LET b == with_window_inner(Bridge, SetClipboardCall(w, text, p))
       IN /\ calls' = b.calls
          /\ SPAWN_QUEUE' = b.queue
          /\ wake' = b.wake
    /\ left' = [left EXCEPT !.prod = @ - 1]
    /\ UNCHANGED <<loopVars, timerVars, winVars, obsVars>>
    /\ UNCHANGED auxVars

\* DataSourceEvent::Send for the selection's data source, dispatched by
\* event_q.dispatch on the loop thread: the handler given to quick_assign
\* calls write_pipe_with_timeout(fd, text), which polls the pipe while the
\* buffer is not empty.
DataSourceSend(w) ==
    /\ pc = "dispatch"
    /\ left.send > 0
    /\ w \in DOMAIN windows
    /\ IsSome(windows[w].selection)
    /\ buf' = Unwrap(windows[w].selection)
    /\ pc' = IF buf' = 0 THEN "dispatch" ELSE "pipe_poll"
    /\ left' = [left EXCEPT !.send = @ - 1]
    /\ UNCHANGED <<should_terminate, period, drain_left, ran_any>>
    /\ UNCHANGED <<queueVars, timerVars, winVars, obsVars>>
    /\ UNCHANGED auxVars

\* libc::poll(&mut pfd, 1, 3000) returns and, the pipe being writable,
\* file.write(buf).
PollOutcomes == {"written", "zero_write", "write_err", "timed_out"}

\* write_pipe_with_timeout: one turn of `while !buf.is_empty()`; the loop
\* thread was waiting in poll. Any bail! is logged by the handler and
\* dispatch goes on.
PipePoll ==
    /\ pc = "pipe_poll"
    /\ \E o \in PollOutcomes, size \in 1..buf :
         /\ buf' = IF o = "written" THEN buf - size ELSE 0
         /\ pc' = IF buf' = 0 THEN "dispatch" ELSE "pipe_poll"
    /\ UNCHANGED <<should_terminate, period, drain_left, ran_any>>
    /\ UNCHANGED <<queueVars, timerVars, winVars, left, obsVars>>
    /\ UNCHANGED auxVars

\* WindowOps::get_clipboard from producer thread p; the future of
\* with_window_inner is dropped, the caller keeps the future of `promise`.
ProducerGetClipboard(p, w, ret) ==
    /\ left.prod > 0
    /\ left.clip
    /\ LET b == with_window_inner(Bridge, Call(w, "get_clipboard", ret, FALSE, p))
       IN /\ calls' = b.calls
          /\ SPAWN_QUEUE' = b.queue
          /\ wake' = b.wake
    /\ left' = [left EXCEPT !.prod = @ - 1]
    /\ UNCHANGED <<loopVars, timerVars, winVars, obsVars, auxVars>>

\* The thread get_clipboard's closure spawned: read_pipe_with_timeout ends
\* and the promise is resolved.
ClipboardReader(c, outcome) ==
    /\ c \in DOMAIN clip_fut
    /\ clip_fut[c] = Reading
    /\ clip_fut' = [clip_fut EXCEPT ![c] = read_pipe_with_timeout(outcome)]
    /\ UNCHANGED <<loopVars, queueVars, timerVars, winVars, left, obsVars, issued>>

LoopStep ==
    \/ LoopStart
    \/ LoopTop
    \/ LoopTimers
    \/ LoopSpawnBegin
    \/ LoopRunTask
    \/ LoopSpawnEnd
    \/ LoopFlush
    \/ LoopDispatchReturn
    \/ PipePoll

Next ==
    \/ LoopStep
    \/ \E w \in WindowIds, evt \in Events : WindowEvent(w, evt)
    \/ \E w \in WindowIds, dpi \in ScaleFactors : ScaleEvent(w, dpi)
    \/ \E size \in {InitialSize}, ok \in BOOLEAN : NewWindow(size, ok)
    \/ TerminateMessageLoop
    \/ \E interval \in TimerIntervals : ScheduleTimer(interval)
    \/ \E p \in Producers, w \in Targets, ret \in {"ok", "err"}, nest \in BOOLEAN :
         ProducerApply(p, w, ret, nest)
    \/ \E p \in Producers, w \in Targets : ProducerClose(p, w)
    \/ \E p \in Producers, w \in Targets : ProducerInvalidate(p, w)
    \/ \E p \in Producers, w \in Targets : ProducerShow(p, w)
    \/ \E p \in Producers, w \in Targets, size \in SurfaceSizes :
         ProducerSetInnerSize(p, w, size)
    \/ \E p \in Producers, w \in Targets, text \in TextLens :
         ProducerSetClipboard(p, w, text)
    \/ \E w \in WindowIds : DataSourceSend(w)
    \/ \E p \in Producers, w \in Targets, ret \in {"ok", "err"} :
          ProducerGetClipboard(p, w, ret)
    \/ \E c \in DOMAIN clip_fut, outcome \in ReadOutcomes : ClipboardReader(c, outcome)

Spec == Init /\ [][Next]_vars

(* ------------------------- the timer list alone ----------------------- *)
\* The timer list under any insertions, firings and passing of time, and the
\* period the loop would compute from it.
TimerBudget ==
    [prod |-> 0, nest |-> FALSE, ev |-> 0, term |-> 0, timer |-> MaxTimers, send |-> 0,
     io |-> FALSE, close |-> FALSE, clip |-> FALSE, wins |-> 1, ops |-> FALSE]
\* Time that passes between two uses of the list, in milliseconds.
Ticks == {1000, 4000}

TimerInit == InitWith({TimerBudget})

TimerInsert(interval) ==
    /\ left.timer > 0
    /\ timers' = schedule_timer(timers, now, interval)
    /\ left' = [left EXCEPT !.timer = @ - 1]
    /\ UNCHANGED <<loopVars, queueVars, now, fired, winVars, obsVars, auxVars>>

TimerRunReady ==
    /\ timers' = run_ready(timers, now)
    /\ fired' = Counted(fired + ready_count(timers, now))
    /\ UNCHANGED <<loopVars, queueVars, now, winVars, left, obsVars, auxVars>>

TimerTick(d) ==
    /\ now + d <= MaxNow
    /\ now' = now + d
    /\ UNCHANGED <<loopVars, queueVars, timers, fired, winVars, left, obsVars, auxVars>>

TimerPeriod ==
    /\ period' = next_period(FALSE, timers, now)
    /\ UNCHANGED <<pc, should_terminate, drain_left, ran_any, buf>>
    /\ UNCHANGED <<queueVars, timerVars, winVars, left, obsVars, auxVars>>

TimerNext ==
    \/ \E interval \in TimerIntervals : TimerInsert(interval)
    \/ TimerRunReady
    \/ \E d \in Ticks : TimerTick(d)
    \/ TimerPeriod

TimerSpec == TimerInit /\ [][TimerNext]_vars

\* The loop thread keeps running: each of its steps ends, the wait in
\* event_q.dispatch because it is given the timeout `period`.
FairSpec == FairInit /\ [][Next]_vars /\ WF_vars(LoopStep)

(* ====================================================================== *)
(*                               Claims                                   *)
(* ====================================================================== *)
LoopEnded == pc \in {"exited", "failed", "panicked"}
\* The task of call c is run in this step.
RunsNow(c) == c \in Made /\ calls'[c[1]][c[2]].runs = CallOf(c).runs + 1
Occurrences(c) == Cardinality({i \in DOMAIN SPAWN_QUEUE : SPAWN_QUEUE[i] = c})

(* C1: a bridge call whose window id is in the registry when the loop     *)
(* thread runs its task has its closure invoked exactly once and its      *)
(* future resolved exactly once, with the value the closure returned      *)
(* (success or failure); no closure is invoked twice, no future resolved  *)
(* twice, and a resolved future keeps its value.                          *)
C1_AtMostOnce ==
    \A c \in Made : CallOf(c).invoked <= 1 /\ CallOf(c).resolved <= 1

C1_StepResolves ==
    \A c \in Made :
        /\ (RunsNow(c) /\ CallOf(c).win \in DOMAIN windows /\ pc' # "panicked")
              => /\ calls'[c[1]][c[2]].invoked = 1
                 /\ calls'[c[1]][c[2]].resolved = 1
                 /\ calls'[c[1]][c[2]].fut = CallOf(c).ret
        /\ CallOf(c).resolved = 1 => calls'[c[1]][c[2]].fut = CallOf(c).fut

C1_LiveWindowResolvedOnce == [](C1_AtMostOnce) /\ [][C1_StepResolves]_vars

\* A closure's failure was delivered to its future.
C1_Witness ==
    \E c \in Made :
        /\ CallOf(c).invoked = 1 /\ CallOf(c).resolved = 1
        /\ CallOf(c).ret = "err" /\ CallOf(c).fut = "err"

(* C2: when the window id is not in the registry as the loop thread runs  *)
(* the task, the closure is not invoked, no window state changes and the  *)
(* future is not resolved; it stays pending from then on.                 *)
C2_StepDrops ==
    \A c \in Made :
        /\ (RunsNow(c) /\ CallOf(c).win \notin DOMAIN windows)
              => /\ calls'[c[1]][c[2]].invoked = 0
                 /\ calls'[c[1]][c[2]].resolved = 0
                 /\ calls'[c[1]][c[2]].fut = "pending"
                 /\ UNCHANGED <<winVars, should_terminate, pc>>
        /\ (CallOf(c).runs = 1 /\ CallOf(c).invoked = 0)
              => /\ calls'[c[1]][c[2]].invoked = 0
                 /\ calls'[c[1]][c[2]].resolved = 0
                 /\ calls'[c[1]][c[2]].fut = "pending"

C2_AbsentWindowNeverResolved == [][C2_StepDrops]_vars

\* A dropped call whose window was registered afterwards: still pending.
C2_Witness ==
    \E c \in Made :
        /\ CallOf(c).runs = 1 /\ CallOf(c).invoked = 0
        /\ CallOf(c).fut = "pending"
        /\ CallOf(c).win \in DOMAIN windows

(* C3: with_window_inner never runs the closure inside the call: a call   *)
(* made in a step is left queued and not invoked, whichever thread made   *)
(* it, and a closure is invoked only by the step of SPAWN_QUEUE.run()     *)
(* that pops its task; one step invokes at most one closure.              *)
C3_StepDefers ==
    /\ \A t \in Threads :
          \A n \in (Len(calls[t]) + 1)..Len(calls'[t]) :
             /\ calls'[t][n].invoked = 0
             /\ calls'[t][n].resolved = 0
             /\ \E i \in DOMAIN SPAWN_QUEUE' : SPAWN_QUEUE'[i] = <<t, n>>
    /\ \A c \in Made :
          calls'[c[1]][c[2]].invoked > CallOf(c).invoked
             => /\ pc = "running"
                /\ drain_left > 0
                /\ Head(SPAWN_QUEUE) = c

C3_ClosureRunsOnlyInDrain == [][C3_StepDefers]_vars

\* A call made by a protocol event handler on the loop thread was invoked
\* by a later drain.
C3_Witness ==
    \E c \in Made :
        /\ c[1] = LoopThread
        /\ CallOf(c).kind = "dispatch"
        /\ CallOf(c).invoked = 1

(* C4: every task spawned into the SPAWN_QUEUE is either still queued,    *)
(* exactly once, and has not run, or is no longer queued and has run      *)
(* exactly once: none is lost and none runs twice.                        *)
C4_ExactlyOnce ==
    /\ \A c \in Made : CallOf(c).runs + Occurrences(c) = 1
    /\ \A i \in DOMAIN SPAWN_QUEUE : SPAWN_QUEUE[i] \in Made

\* Two producer threads' tasks have both run.
C4_Witness ==
    \E c, d \in Made :
        /\ c[1] \in Producers /\ d[1] \in Producers /\ c[1] # d[1]
        /\ CallOf(c).runs = 1 /\ CallOf(d).runs = 1

(* C5: the tasks of one thread run in the order the thread made them: a   *)
(* task that has run was preceded by every earlier task of its thread,    *)
(* and the tasks of one thread are queued in that order.                  *)
C5_FifoPerThread ==
    /\ \A c, d \in Made :
          (c[1] = d[1] /\ c[2] < d[2] /\ CallOf(d).runs > 0) => CallOf(c).runs > 0
    /\ \A i, j \in DOMAIN SPAWN_QUEUE :
          (i < j /\ SPAWN_QUEUE[i][1] = SPAWN_QUEUE[j][1])
             => SPAWN_QUEUE[i][2] < SPAWN_QUEUE[j][2]

\* A producer's first task has run, its second is still queued behind
\* another producer's task.
C5_Witness ==
    \E p \in Producers :
        /\ Len(calls[p]) >= 2
        /\ CallOf(<<p, 1>>).runs = 1
        /\ CallOf(<<p, 2>>).runs = 0
        /\ \E i, j \in DOMAIN SPAWN_QUEUE :
              i < j /\ SPAWN_QUEUE[j] = <<p, 2>> /\ SPAWN_QUEUE[i][1] \notin {p, LoopThread}

(* C6: every task spawned while the loop runs is eventually run, without  *)
(* any reliance on the wake signal, unless the loop has ended; the loop    *)
(* drains the queue in every iteration before it waits, and a wait lasts   *)
(* no longer than the time until the next timer is due or, when no timer   *)
(* is scheduled, the fallback period.                                      *)
Sleeping == pc \in {"flush", "dispatch"}

C6_SleepBound ==
    Sleeping =>
        period <= (IF timers = <<>>
                   THEN FALLBACK_PERIOD_MS
                   ELSE Unwrap(time_until_due(timers, now)))

C6_DrainBeforeSleep ==
    (pc' = "dispatch" /\ pc \notin {"dispatch", "pipe_poll"})
        => (pc = "flush" /\ drain_left = 0)

\* Every task spawned so far has run, or the loop has ended. A task that has
\* run stays run and an ended loop stays ended, so if this holds again and
\* again, each task spawned is eventually run unless the loop ends.
AllRun == (\A c \in Made : CallOf(c).runs > 0) \/ LoopEnded

C6_Eventually == []<>AllRun

C6_EventuallyExecuted ==
    /\ [](C6_SleepBound)
    /\ [][C6_DrainBeforeSleep]_vars
    /\ C6_Eventually

\* The loop waits for the whole fallback period with a producer's task
\* queued and no wake signal left: the task was spawned after
\* SPAWN_QUEUE.run() took its snapshot and its signal was consumed.
C6_Witness ==
    \E c \in Made :
        /\ c[1] \in Producers
        /\ CallOf(c).runs = 0
        /\ ~wake
        /\ pc = "dispatch"
        /\ period = FALLBACK_PERIOD_MS

(* C6 as stated: as above, but no wait is longer than the fallback        *)
(* ceiling.                                                               *)
C6_SleepCapped == Sleeping => period <= FALLBACK_PERIOD_MS

C6_AsStated ==
    /\ [](C6_SleepCapped)
    /\ [][C6_DrainBeforeSleep]_vars
    /\ C6_Eventually

(* C7: when two Configure notifications carrying the same size are queued *)
(* into a window's PendingEvent one after the other with no drain between *)
(* them, the second PendingEvent::queue call returns false, whatever      *)
(* window states the notifications carry (Fullscreen included) and        *)
(* whatever the aggregator held before.                                   *)
SameSizeConfigures(log, i, j) ==
    /\ i < j
    /\ log[i].evt.type = "Configure" /\ log[j].evt.type = "Configure"
    /\ IsSome(log[i].evt.new_size)
    /\ log[i].evt.new_size = log[j].evt.new_size

C7_SecondConfigureUnchanged ==
    \A w \in DOMAIN qlog :
        \A i, j \in DOMAIN qlog[w] :
            SameSizeConfigures(qlog[w], i, j) => ~qlog[w][j].changed

(* C8: of the Close notifications queued into a window's PendingEvent     *)
(* between two drains, PendingEvent::queue returns true for the first and *)
(* false for every later one; the first Close after a drain returns true  *)
(* again.                                                                 *)
C8_CloseChangedOnce ==
    \A w \in DOMAIN qlog :
        \A j \in DOMAIN qlog[w] :
            qlog[w][j].evt = EvClose
               => (qlog[w][j].changed <=> ~qlog[w][j].close_before)

\* After a drain, a Close returned true and the next Close returned false.
C8_Witness ==
    \E w \in DOMAIN qlog :
        /\ Len(qlog[w]) >= 2
        /\ qlog[w][1] = [evt |-> EvClose, changed |-> TRUE, close_before |-> FALSE]
        /\ qlog[w][2] = [evt |-> EvClose, changed |-> FALSE, close_before |-> TRUE]
        /\ \E c \in Made :
              /\ CallOf(c).kind = "dispatch" /\ CallOf(c).win = w
              /\ CallOf(c).invoked = 1

(* C9: when two or more Configure notifications carrying the same size s, *)
(* and nothing else, are delivered to a window between two drains, with s *)
(* giving dimensions different from the committed ones, the aggregator    *)
(* holds s while they wait and, once every dispatch task scheduled for    *)
(* the window has run, exactly one resize callback has fired since the    *)
(* first of them, with the dimensions computed from s, which are now the  *)
(* committed ones.                                                        *)
DispatchQueued(w) ==
    \E i \in DOMAIN SPAWN_QUEUE :
        /\ CallOf(SPAWN_QUEUE[i]).kind = "dispatch"
        /\ CallOf(SPAWN_QUEUE[i]).win = w

C9_OneResizePerSize ==
    \A w \in DOMAIN batch \cap DOMAIN windows :
        LET b == batch[w] IN
        /\ b.phase = "open" => pending_event[w].configure = Some(b.size)
        /\ (b.phase = "drained" /\ b.k >= 2 /\ b.differs /\ ~DispatchQueued(w))
              => /\ windows[w].n_resize = b.base + 1
                 /\ IsSome(windows[w].last_resize)
                 /\ Unwrap(windows[w].last_resize).dimensions = b.expect
                 /\ windows[w].dimensions = b.expect

\* Two Configures of 400x300 were drained at scale factor 2: one resize, to
\* 800x600 pixels at dpi 192.
C9_Witness ==
    \E w \in DOMAIN batch \cap DOMAIN windows :
        /\ batch[w].phase = "drained" /\ batch[w].k >= 2 /\ batch[w].differs
        /\ batch[w].size = OtherSize
        /\ ~DispatchQueued(w)
        /\ scale[w] = 2
        /\ windows[w].n_resize = batch[w].base + 1

(* C10: for a new window whose first notification is a Configure carrying *)
(* its initial size, not fullscreen, at scale factor 1, once that         *)
(* notification is drained (and the collaborators did not fail): GPU      *)
(* negotiation has run exactly once, `created` has fired exactly once,    *)
(* `resize` has not fired and `render` has fired exactly once.            *)
C10_FirstConfigure ==
    \A w \in DOMAIN fresh \cap DOMAIN windows :
        (fresh[w] = "drained" /\ pc # "panicked")
           => /\ windows[w].n_negotiate = 1
              /\ windows[w].n_created = 1
              /\ windows[w].n_resize = 0
              /\ windows[w].n_render = 1
              /\ windows[w].gpu_context

\* The first Configure of a window was drained and the loop went on.
C10_Witness ==
    \E w \in DOMAIN fresh \cap DOMAIN windows :
        /\ fresh[w] = "drained"
        /\ pc = "flush"
        /\ windows[w].n_render = 1
        /\ windows[w].dimensions = Dimensions(800, 600, DEFAULT_DPI)

(* C11: when a drain finds a Close pending and can_close answers false,   *)
(* destroy is not invoked and the platform window is kept, so the window  *)
(* stays as it was; that drain consumes the pending close flag, and       *)
(* can_close is asked at most once per step and only by a drain that      *)
(* found a Close pending, so not again before a new Close arrives.        *)
Asked(w) ==
    /\ w \in DOMAIN windows /\ w \in DOMAIN windows'
    /\ windows'[w].n_can_close # windows[w].n_can_close

C11_StepRefused ==
    \A w \in WindowIds :
        Asked(w) =>
            /\ windows'[w].n_can_close = windows[w].n_can_close + 1
            /\ pending_event[w].close
            /\ ~pending_event'[w].close
            /\ windows'[w].last_can_close = Some(FALSE)
                  => /\ windows'[w].n_destroy = windows[w].n_destroy
                     /\ windows'[w].window = windows[w].window
                     /\ should_terminate' = should_terminate

C11_RefusedCloseKeepsWindow == [][C11_StepRefused]_vars

\* can_close refused a Close: the window is still mapped, nothing was
\* destroyed and no close is pending any more.
C11_Witness ==
    \E w \in DOMAIN windows :
        /\ windows[w].last_can_close = Some(FALSE)
        /\ windows[w].window
        /\ windows[w].n_destroy = 0
        /\ ~pending_event[w].close

(* C12: when a drain finds a Close pending and can_close answers true,    *)
(* the same drain invokes destroy once and releases the platform window,  *)
(* so the window is destroyed afterwards; can_close is consulted only by  *)
(* the closure that drains a pending Close.                               *)
C12_StepAccepted ==
    \A w \in WindowIds :
        Asked(w) =>
            /\ pc = "running"
            /\ CallOf(Head(SPAWN_QUEUE)).kind \in DrainKinds
            /\ CallOf(Head(SPAWN_QUEUE)).win = w
            /\ pending_event[w].close
            /\ windows'[w].last_can_close = Some(TRUE)
                  => /\ windows'[w].n_destroy = windows[w].n_destroy + 1
                     /\ ~windows'[w].window

C12_AcceptedCloseDestroys == [][C12_StepAccepted]_vars

\* can_close accepted a Close notification: destroy has fired and the
\* platform window is gone.
C12_Witness ==
    \E w \in DOMAIN windows :
        /\ windows[w].last_can_close = Some(TRUE)
        /\ windows[w].n_destroy = 1
        /\ ~windows[w].window

(* C13: once a window's close sequence has completed (destroy invoked and *)
(* the platform window released, through a Close notification or through *)
(* WindowOps::close), its id is no longer in the window registry, so no   *)
(* closure is run against it afterwards.                                  *)
Closed(inner) == inner.n_destroy > 0 /\ ~inner.window

C13_NotRegistered == \A w \in DOMAIN windows : ~Closed(windows[w])

C13_StepNotRun ==
    \A c \in Made :
        (calls'[c[1]][c[2]].invoked > CallOf(c).invoked /\ CallOf(c).win \in DOMAIN windows)
            => ~Closed(windows[CallOf(c).win])

C13_ClosedNotRegistered == [](C13_NotRegistered) /\ [][C13_StepNotRun]_vars

\* C14: whenever run_message_loop has returned, through the termination flag
\* or through a flush or dispatch failure, the registry of windows is empty.
Returned == pc \in {"exited", "failed"}
C14_RegistryEmptyOnReturn == Returned => windows = <<>>

\* C15: once terminate has set the flag the loop begins no new iteration: the
\* flag stays set, it is tested only at the top of the loop, so the phases of
\* the iteration under way still run and the loop leaves from the top only;
\* the loop then ends (the flag being set for good, it is set and the loop
\* still running only finitely often); and when the flag is already set as
\* run_message_loop is called no iteration runs at all: no timer fires and no
\* task is run.
C15_StepTerminate ==
    /\ should_terminate => should_terminate'
    /\ pc' = "timers" => ~should_terminate
    /\ (pc' = "exited" /\ pc # "exited") => (pc = "top" /\ should_terminate)
C15_ZeroIterations ==
    term_at_call =>
        /\ pc \in {"top", "exited", "failed"}
        /\ fired = 0
        /\ \A c \in Made : CallOf(c).runs = 0
C15_TerminateEndsLoop ==
    /\ [][C15_StepTerminate]_vars
    /\ [](C15_ZeroIterations)
    /\ []<>(should_terminate => LoopEnded)
C15_Witness == pc = "exited" /\ should_terminate /\ ~term_at_call

\* C16: a would-block or an interrupted result of flush or of dispatch never
\* ends the loop: the loop thread given one of them goes on.
Transient == {"would_block", "interrupted"}
C16_TransientNeverEnds ==
    (IsSome(last_io) /\ Unwrap(last_io).outcome \in Transient) => pc # "failed"

\* C17: a dispatch failure other than would-block or interrupted is fatal:
\* the loop returns at once with the error, and afterwards fires no timer,
\* runs no task, dispatches no event and starts no other phase.
DispatchFailed == last_io = IoResult("dispatch", "error")
C17_StepAfterFailure ==
    DispatchFailed =>
        /\ pc' = pc
        /\ fired' = fired
        /\ timers' = timers
        /\ \A c \in Made : calls'[c[1]][c[2]].runs = CallOf(c).runs
        /\ pending_event' = pending_event
        /\ windows' = windows
C17_DispatchFailureFatal ==
    /\ [](DispatchFailed => pc = "failed")
    /\ [][C17_StepAfterFailure]_vars
C17_Witness ==
    /\ DispatchFailed
    /\ pc = "failed"
    /\ SPAWN_QUEUE # <<>>
    /\ \E w \in DOMAIN windows : windows[w].window

\* C18: a failed GPU negotiation affects only its window: the loop thread
\* goes on running (the failure being an error handed to the caller of
\* new_window), so no window whose negotiation found no adapter or no device
\* leaves the loop thread panicked.
NegotiationFailed(inner) == inner.n_negotiate > 0 /\ ~inner.gpu_context
C18_NegotiationFailureLocal ==
    \A w \in DOMAIN windows : NegotiationFailed(windows[w]) => pc # "panicked"

\* C19: a paint of a window with a GPU context whose frame cannot be acquired
\* recreates the swap chain exactly once and acquires again exactly once; when
\* the second acquisition succeeds the render callback runs once, when it
\* fails the loop thread panics and render is not called. A paint whose first
\* acquisition succeeds recreates nothing and renders once.
PaintsAllowed == {Paint(1, 0, 1), Paint(2, 1, 1), Paint(2, 1, 0)}
C19_PaintOutcome ==
    IsSome(last_paint) =>
        /\ \E w \in DOMAIN windows : windows[w].gpu_context
        /\ last_paint \in PaintsAllowed
        /\ Unwrap(last_paint).renders = 0 <=> pc = "panicked"
C19_StepRender ==
    /\ \A w \in DOMAIN windows \cap DOMAIN windows' :
          windows'[w].n_render # windows[w].n_render =>
              /\ windows'[w].n_render = windows[w].n_render + 1
              /\ IsSome(last_paint')
    /\ \A c \in Made :
          (RunsNow(c) /\ IsSome(last_paint')) =>
              LET w == CallOf(c).win IN
              windows'[w].n_render = windows[w].n_render + Unwrap(last_paint').renders
C19_RetryOnce == [](C19_PaintOutcome) /\ [][C19_StepRender]_vars
C19_Witness ==
    /\ last_paint = Paint(2, 1, 1)
    /\ pc = "running"
    /\ \E w \in DOMAIN windows : windows[w].n_render > 0

\* C20: the loop thread blocks only in the bounded wait of event_q.dispatch
\* and in the one-time GPU negotiation (which a task runs to its end): it is
\* never waiting anywhere else, the handlers of protocol events included.
LoopThreadWaits == {"dispatch", "pipe_poll"}
WaitsAllowed == {"dispatch"}
C20_BlocksOnlyInWait == pc \in LoopThreadWaits => pc \in WaitsAllowed

\* C21: a background clipboard read that times out resolves the future of
\* its get_clipboard with a failure; the reader thread changes nothing but
\* that one promise, no window state and nothing of the loop; and the loop
\* thread goes on iterating whether or not the read ever ends.
C21_TimeoutFails ==
    \A c \in DOMAIN clip_fut : clip_fut[c].read = "timed_out" => clip_fut[c].fut = "err"
C21_StepReader ==
    \A c \in DOMAIN clip_fut :
        clip_fut'[c] # clip_fut[c] =>
            /\ clip_fut[c] = Reading
            /\ clip_fut'[c].fut \in {"ok", "err"}
            /\ \A d \in DOMAIN clip_fut \ {c} : clip_fut'[d] = clip_fut[d]
            /\ UNCHANGED <<loopVars, queueVars, timerVars, winVars>>
C21_ReadTimeoutLocal ==
    /\ [](C21_TimeoutFails)
    /\ [][C21_StepReader]_vars
    /\ []<>(pc = "top" \/ LoopEnded)
C21_Witness ==
    \E c \in DOMAIN clip_fut :
        /\ clip_fut[c] = [fut |-> "err", read |-> "timed_out"]
        /\ pc = "dispatch"
        /\ CallOf(c).runs = 1

\* C22: whatever timers were inserted and fired, the time until the next
\* timer is due at instant t is the least, over the entries, of the time
\* left until the entry is due (zero for an entry already due), and there is
\* none when the list is empty; the loop then waits the fallback period.
Remaining(i) == IF timers[i].due > now THEN timers[i].due - now ELSE 0
C22_MinRemaining ==
    LET d == time_until_due(timers, now) IN
    /\ IsSome(d) <=> timers # <<>>
    /\ IsSome(d) =>
          /\ \E i \in DOMAIN timers : Unwrap(d) = Remaining(i)
          /\ \A i \in DOMAIN timers : Unwrap(d) <= Remaining(i)
C22_StepPeriod ==
    period' # period =>
        period' = IF timers = <<>>
                  THEN FALLBACK_PERIOD_MS
                  ELSE Unwrap(time_until_due(timers, now))
C22_TimeUntilDue == [](C22_MinRemaining) /\ [][C22_StepPeriod]_vars
C22_Witness ==
    /\ \E i, j \in DOMAIN timers : timers[i].due < now /\ timers[j].due > now
    /\ period = 0

\* C23: the ids next_window_id hands out are strictly increasing: each call
\* of new_window obtains an id greater than every id obtained before,
\* whether or not the window is then created; so no two windows share an
\* id and no id is issued a second time, that of a closed window included.
C23_Increasing ==
    /\ \A i, j \in DOMAIN issued : i < j => issued[i] < issued[j]
    /\ \A i \in DOMAIN issued : issued[i] < next_window_id
    /\ \A w \in DOMAIN windows : \E i \in DOMAIN issued : issued[i] = w
C23_StepIssue ==
    issued' # issued =>
        /\ Len(issued') = Len(issued) + 1
        /\ \A i \in DOMAIN issued : issued'[i] = issued[i] /\ issued[i] < issued'[Len(issued')]
        /\ DOMAIN windows' \subseteq DOMAIN windows \cup {issued'[Len(issued')]}
C23_IdsIncrease == [](C23_Increasing) /\ [][C23_StepIssue]_vars
C23_Witness ==
    /\ Len(issued) = 2
    /\ issued[1] \notin DOMAIN windows
    /\ issued[2] \in DOMAIN windows

\* C24: GPU negotiation is started at most once per window, and only by a
\* drain that saw a Configure notification, with the platform window still
\* there and no context attached; `created` is called once, in the step
\* that attaches the context, and never again; a context once attached
\* stays attached and no second negotiation replaces it.
C24_Once ==
    \A w \in DOMAIN windows :
        /\ windows[w].n_negotiate <= 1
        /\ windows[w].n_created <= 1
        /\ windows[w].gpu_context <=> windows[w].n_created = 1
        /\ windows[w].gpu_context => windows[w].n_negotiate = 1
C24_StepNegotiate ==
    \A w \in DOMAIN windows \cap DOMAIN windows' :
        /\ windows'[w].n_negotiate # windows[w].n_negotiate =>
              /\ pc = "running"
              /\ CallOf(Head(SPAWN_QUEUE)).kind \in DrainKinds
              /\ CallOf(Head(SPAWN_QUEUE)).win = w
              /\ pending_event[w].had_configure_event
              /\ ~windows[w].gpu_context
              /\ windows[w].window /\ windows'[w].window
        /\ windows[w].gpu_context => windows'[w].gpu_context
        /\ windows'[w].n_created # windows[w].n_created =>
              /\ ~windows[w].gpu_context /\ windows'[w].gpu_context
              /\ windows'[w].n_negotiate = windows[w].n_negotiate + 1
C24_NegotiatedOnce == [](C24_Once) /\ [][C24_StepNegotiate]_vars
\* A window whose context was attached by its first Configure and that has
\* been resized and painted by a later one.
C24_Witness ==
    \E w \in DOMAIN windows :
        /\ windows[w].gpu_context
        /\ windows[w].n_negotiate = 1
        /\ windows[w].n_created = 1
        /\ windows[w].n_resize >= 1
        /\ windows[w].n_render >= 2

\* C25: one iteration runs its phases in the order timers, drain of the
\* queue, flush, dispatch; from the start of the dispatch to the top of the
\* next iteration no timer fires and no task of the queue runs, and the
\* protocol events are delivered only there, so those of one wait form one
\* batch that no timer or task interrupts.
PhaseOrder ==
    { <<"start", "top">>, <<"top", "timers">>, <<"timers", "spawn">>,
      <<"spawn", "running">>, <<"running", "flush">>, <<"flush", "dispatch">>,
      <<"dispatch", "pipe_poll">>, <<"pipe_poll", "dispatch">>,
      <<"dispatch", "top">>,
      <<"top", "exited">>, <<"start", "failed">>, <<"flush", "failed">>,
      <<"dispatch", "failed">>, <<"running", "panicked">> }
TimerFires == timers' # timers /\ Len(timers') = Len(timers)
TaskRuns == \E c \in Made : calls'[c[1]][c[2]].runs # CallOf(c).runs
EventDelivered == left'.ev < left.ev
C25_StepPhases ==
    /\ pc' # pc => <<pc, pc'>> \in PhaseOrder
    /\ TimerFires => pc = "timers"
    /\ fired' # fired => pc = "timers"
    /\ TaskRuns => pc = "running"
    /\ EventDelivered => pc = "dispatch" /\ pc' = "dispatch"
    /\ pc \in {"dispatch", "pipe_poll"} =>
          /\ ~TimerFires /\ fired' = fired /\ ~TaskRuns
          /\ Len(SPAWN_QUEUE') >= Len(SPAWN_QUEUE)
C25_PhaseOrder == [][C25_StepPhases]_vars
\* Two notifications have been delivered in one dispatch while a task
\* scheduled by the first one waits in the queue.
C25_Witness ==
    /\ pc = "dispatch"
    /\ SPAWN_QUEUE # <<>>
    /\ \E w \in DOMAIN qlog : Len(qlog[w]) >= 2 /\ qlog[w][1].changed

\* C26 (as stated): the period chosen by an iteration is zero if and only if
\* its drain ran at least one task.
C26_StepZeroIff ==
    (pc = "running" /\ pc' = "flush") => (period' = 0 <=> ran_any)
C26_AsStated == [][C26_StepZeroIff]_vars
\* C26: the period chosen by an iteration is zero if its drain ran a task;
\* otherwise it is the time until the next timer is due, which is zero when
\* a timer is already due, or 2500 ms when there is no timer; the wait for
\* protocol events never lasts longer than the period.
MinRemaining == CHOOSE d \in {Remaining(i) : i \in DOMAIN timers} :
                    \A j \in DOMAIN timers : d <= Remaining(j)
C26_StepPeriod ==
    /\ (pc = "running" /\ pc' = "flush") =>
          /\ ran_any => period' = 0
          /\ (~ran_any /\ timers = <<>>) => period' = FALLBACK_PERIOD_MS
          /\ (~ran_any /\ timers # <<>>) => period' = MinRemaining
    /\ now' # now => (pc = "dispatch" /\ now' > now /\ now' - now <= period)
C26_WaitPeriod == [][C26_StepPeriod]_vars
\* The loop waits with a zero period although its drain ran no task: the
\* only timer was re-armed to the instant it fired at.
C26_Witness ==
    /\ pc = "flush"
    /\ period = 0
    /\ \A c \in Made : CallOf(c).runs = 0
    /\ timers # <<>>
    /\ \A i \in DOMAIN timers : IsSome(timers[i].last) /\ timers[i].due = now

\* C27: schedule_timer adds an entry due at the instant of the call, so the
\* timer phase of the next iteration fires it whatever its interval; each
\* firing re-arms the entry to the firing time plus its interval, so two
\* firings of one timer are at least one interval apart; no entry is ever
\* removed or has its interval changed.
C27_Armed ==
    \A i \in DOMAIN timers :
        IF IsSome(timers[i].last)
        THEN timers[i].due = Unwrap(timers[i].last) + timers[i].interval
        ELSE timers[i].due <= now
C27_StepTimer ==
    /\ Len(timers') >= Len(timers)
    /\ Len(timers') > Len(timers) =>
          /\ Len(timers') = Len(timers) + 1
          /\ timers'[Len(timers')].due = now
          /\ timers'[Len(timers')].last = None
    /\ \A i \in DOMAIN timers :
          /\ timers'[i].interval = timers[i].interval
          /\ (pc = "timers" /\ pc' = "spawn" /\ timers[i].last = None)
                => timers'[i].last = Some(now)
          /\ timers'[i] # timers[i] =>
                /\ pc = "timers"
                /\ timers'[i].last = Some(now)
                /\ timers'[i].due = now + timers[i].interval
                /\ IsSome(timers[i].last) =>
                      now >= Unwrap(timers[i].last) + timers[i].interval
C27_TimerFiring == [](C27_Armed) /\ [][C27_StepTimer]_vars
\* A timer of interval 1000 has fired a second time, one interval after its
\* first firing, and a timer of interval 5000 has fired its first time.
C27_Witness ==
    \E i, j \in DOMAIN timers :
        /\ timers[i].interval = 1000
        /\ timers[i].last = Some(1000)
        /\ timers[j].interval = 5000
        /\ IsSome(timers[j].last)
        /\ fired >= 3

\* C28: a drain that applies a configure to a live window calls resize if
\* and only if the recomputed dimensions differ from the committed ones,
\* once, with the dimensions it has just committed; with a GPU context
\* attached, sc_desc gets the new width and height before the callback and
\* the swap chain is recreated after it.
\* The step is SPAWN_QUEUE.run() running the dispatch task of window w with
\* a configure (reported or synthesized for a scale change) to apply.
Taken(w) == pending_of(CallOf(Head(SPAWN_QUEUE)), windows[w])
ConfigureDrain(w) ==
    /\ pc = "running"
    /\ drain_left' = drain_left - 1
    /\ CallOf(Head(SPAWN_QUEUE)).kind \in DrainKinds
    /\ CallOf(Head(SPAWN_QUEUE)).win = w
    /\ w \in DOMAIN windows
    /\ IsSome(Taken(w).configure) \/ IsSome(Taken(w).dpi)
    /\ windows'[w].window
ConfigureSize(w) ==
    IF IsSome(Taken(w).configure)
    THEN Unwrap(Taken(w).configure)
    ELSE <<pixels_to_surface(windows[w], windows[w].dimensions.pixel_width),
           pixels_to_surface(windows[w], windows[w].dimensions.pixel_height)>>
Recomputed(w) ==
    Dimensions(surface_to_pixels(windows[w], ConfigureSize(w)[1]),
               surface_to_pixels(windows[w], ConfigureSize(w)[2]),
               scale[w] * DEFAULT_DPI)
C28_Geometry ==
    \A w \in DOMAIN windows :
        windows[w].gpu_context =>
            windows[w].sc_desc = SwapChainDescriptor(windows[w].dimensions)
C28_StepResize ==
    \A w \in DOMAIN windows \cap DOMAIN windows' :
        /\ windows'[w].n_resize # windows[w].n_resize => ConfigureDrain(w)
        /\ ConfigureDrain(w) =>
              IF Recomputed(w) # windows[w].dimensions
              THEN /\ windows'[w].n_resize = windows[w].n_resize + 1
                   /\ windows'[w].dimensions = Recomputed(w)
                   /\ windows'[w].last_resize =
                         Some([dimensions |-> windows'[w].dimensions,
                               full_screen |-> windows'[w].full_screen,
                               ops |-> IF windows[w].gpu_context
                                       THEN GpuResizeOps
                                       ELSE PlainResizeOps])
              ELSE /\ windows'[w].n_resize = windows[w].n_resize
                   /\ windows'[w].dimensions = windows[w].dimensions
                   /\ windows'[w].last_resize = windows[w].last_resize
C28_ResizeOnChange == [](C28_Geometry) /\ [][C28_StepResize]_vars
\* A window with a GPU context has been resized by a configure of a new size.
C28_Witness ==
    \E w \in DOMAIN windows :
        /\ windows[w].gpu_context
        /\ windows[w].n_created = 1
        /\ IsSome(windows[w].last_resize)
        /\ Unwrap(windows[w].last_resize).ops = GpuResizeOps
        /\ Unwrap(windows[w].last_resize).dimensions = windows[w].dimensions
        /\ pc = "running"

\* C29: a drain whose configure recomputes the committed dimensions calls no
\* callback for it, neither resize nor render, and does not mark the window
\* paint-needed, also when the window has its GPU context.
C29_StepQuiet ==
    \A w \in DOMAIN windows \cap DOMAIN windows' :
        (ConfigureDrain(w) /\ windows[w].gpu_context
           /\ Recomputed(w) = windows[w].dimensions) =>
            /\ windows'[w].n_resize = windows[w].n_resize
            /\ windows'[w].n_render = windows[w].n_render
            /\ last_paint' = None
C29_UnchangedConfigureQuiet == [][C29_StepQuiet]_vars

\* C30: after a drain has applied a configure of surface size (w, h) to a
\* live window whose surface has scale factor f, the committed dimensions
\* are w*f by h*f pixels at f*DEFAULT_DPI, also when f is not the factor of
\* the dimensions committed before.
C30_StepScaled ==
    \A w \in DOMAIN windows \cap DOMAIN windows' :
        (ConfigureDrain(w) /\ IsSome(Taken(w).configure)) =>
            windows'[w].dimensions =
                Dimensions(Unwrap(Taken(w).configure)[1] * scale[w],
                           Unwrap(Taken(w).configure)[2] * scale[w],
                           scale[w] * DEFAULT_DPI)
C30_PixelsFollowScale == [][C30_StepScaled]_vars

\* C31: a drain of a scale-factor notification with no configure buffered
\* leaves the window as a drain of a Configure carrying the window's current
\* surface size would: the dimensions are recomputed from that size, and
\* resize is called if and only if they differ from the committed ones.
ScaleOnlyDrain(w) ==
    /\ ConfigureDrain(w)
    /\ ~IsSome(Taken(w).configure)
AsIfConfigured(w) ==
    Dimensions(surface_to_pixels(windows[w], windows[w].surface_size[1]),
               surface_to_pixels(windows[w], windows[w].surface_size[2]),
               scale[w] * DEFAULT_DPI)
C31_StepSynthesized ==
    \A w \in DOMAIN windows \cap DOMAIN windows' :
        ScaleOnlyDrain(w) =>
            /\ windows'[w].dimensions = AsIfConfigured(w)
            /\ windows'[w].surface_size = windows[w].surface_size
            /\ windows'[w].n_resize # windows[w].n_resize
                  <=> AsIfConfigured(w) # windows[w].dimensions
C31_ScaleAsConfigure == [][C31_StepSynthesized]_vars

\* C32: between drains the aggregator holds at most one value per field,
\* the one queued last (a Configure size replaces the buffered one also when
\* queue returns false); a drain takes all the fields and empties them in
\* one step, applies what it took, and leaves what is queued afterwards to
\* the next drain.
\* The aggregator after `evt`, field by field.
Merged(pe, evt) ==
    [close |-> pe.close \/ evt.type = "Close",
     refresh_decorations |-> pe.refresh_decorations \/ evt.type = "Refresh",
     had_configure_event |-> pe.had_configure_event \/ evt.type = "Configure",
     configure |-> IF evt.type = "Configure" /\ IsSome(evt.new_size)
                   THEN evt.new_size ELSE pe.configure,
     dpi |-> pe.dpi,
     full_screen |-> IF evt.type = "Configure"
                        /\ (evt.fullscreen \/ IsSome(pe.full_screen))
                     THEN Some(evt.fullscreen) ELSE pe.full_screen]
\* The step is the loop thread running the drain of window w.
DrainOf(w) ==
    /\ pc = "running"
    /\ drain_left' = drain_left - 1
    /\ CallOf(Head(SPAWN_QUEUE)).kind \in DrainKinds
    /\ CallOf(Head(SPAWN_QUEUE)).win = w
    /\ w \in DOMAIN windows
C32_StepAggregator ==
    \A w \in DOMAIN pending_event \cap DOMAIN pending_event' :
        /\ pending_event'[w] # pending_event[w] =>
              \/ DrainOf(w) /\ pending_event'[w] = PendingEvent_default
              \/ /\ EventDelivered /\ scale' = scale
                  /\ \E evt \in Events :
                        /\ qlog'[w][Len(qlog'[w])].evt = evt
                        /\ pending_event'[w] = Merged(pending_event[w], evt)
              \/ /\ EventDelivered /\ scale'[w] # scale[w]
                  /\ pending_event'[w] =
                        [pending_event[w] EXCEPT !.dpi = Some(scale'[w])]
        /\ DrainOf(w) =>
              /\ pending_event'[w] = PendingEvent_default
              /\ IsSome(pending_event[w].full_screen) =>
                    windows'[w].full_screen = Unwrap(pending_event[w].full_screen)
              /\ (IsSome(Taken(w).configure) /\ windows'[w].window) =>
                    windows'[w].surface_size = Unwrap(Taken(w).configure)
C32_LatestPerField == [][C32_StepAggregator]_vars
\* Two Configure notifications of different sizes were queued with no drain
\* in between: queue returned false for the second and its size is the one
\* buffered.
C32_Witness ==
    \E w \in DOMAIN qlog :
        /\ Len(qlog[w]) = 2
        /\ qlog[w][1].evt.type = "Configure" /\ IsSome(qlog[w][1].evt.new_size)
        /\ qlog[w][2].evt.type = "Configure" /\ IsSome(qlog[w][2].evt.new_size)
        /\ qlog[w][2].evt.new_size # qlog[w][1].evt.new_size
        /\ ~qlog[w][2].changed
        /\ pending_event[w].configure = qlog[w][2].evt.new_size

\* C33: once the task of a get_clipboard call has run on a registered
\* window, the future the caller holds is resolved or has a reader thread
\* that will resolve it: it is never left pending with nothing to resolve
\* it, also when the clipboard's pipe could not be obtained.
C33_NeverLeftPending ==
    \A c \in DOMAIN clip_fut : clip_fut[c] # Dropped

\* C34: after a drain that applied a Configure notification the window's
\* full_screen flag is the fullscreen state of the last Configure it was
\* sent; a window whose flag is true is set back to false by a later
\* Configure without the Fullscreen state.
LastQueued(w) == qlog[w][Len(qlog[w])].evt
C34_StepFullscreen ==
    \A w \in DOMAIN windows \cap DOMAIN windows' :
        (DrainOf(w) /\ Len(qlog[w]) > 0 /\ LastQueued(w).type = "Configure") =>
            windows'[w].full_screen = LastQueued(w).fullscreen
C34_FullscreenFollowsConfigure == [][C34_StepFullscreen]_vars

\* C35: the destroy callback is called at most once for a window, whatever
\* Close notifications, drains and WindowOps::close calls it gets.
C35_DestroyAtMostOnce ==
    \A w \in DOMAIN windows : windows[w].n_destroy <= 1

\* C36: once destroy has been invoked for a window, no resize, created or
\* render callback is invoked for it again: not by the step that called
\* destroy (the drain handles close before anything else), and not by any
\* later step (a configure drain, invalidate, show, set_inner_size).
C36_StepSilent ==
    \A w \in DOMAIN windows :
        (w \in DOMAIN windows' /\ windows'[w].n_destroy >= 1)
            => /\ windows'[w].n_resize = windows[w].n_resize
               /\ windows'[w].n_created = windows[w].n_created
               /\ windows'[w].n_render = windows[w].n_render
C36_SilentAfterDestroy == [][C36_StepSilent]_vars

\* C37: no notification is lost. While the loop runs, a registered window
\* whose aggregator holds a buffered value has a dispatch task pending in
\* the SpawnQueue (a drain takes all of the aggregator in one step, and
\* set_inner_size writes its size and drains it in the same step, so no
\* state lies inside a drain); and every buffered value is eventually
\* drained unless the loop ends first, also one whose queue call returned
\* false.
Buffered(w) == w \in DOMAIN pending_event /\ pending_event[w] # PendingEvent_default
DispatchPending(w) ==
    \E i \in DOMAIN SPAWN_QUEUE :
        /\ CallOf(SPAWN_QUEUE[i]).kind = "dispatch"
        /\ CallOf(SPAWN_QUEUE[i]).win = w
C37_Scheduled ==
    ~LoopEnded => \A w \in DOMAIN windows : Buffered(w) => DispatchPending(w)
C37_Drained ==
    \A w \in WindowIds : Buffered(w) ~> (LoopEnded \/ ~Buffered(w))
C37_NoNotificationLost == []C37_Scheduled /\ C37_Drained
\* An event whose queue call returned false is buffered and a dispatch task
\* for its window is pending.
C37_Witness ==
    /\ ~LoopEnded
    /\ \E w \in DOMAIN windows :
          /\ Buffered(w)
          /\ DispatchPending(w)
          /\ \E i \in DOMAIN qlog[w] : ~qlog[w][i].changed

\* C38: between operations need_paint is true exactly when no GPU context is
\* attached. An operation that sets the flag (invalidate, a drain that
\* applies a configure) paints before it returns: with a context render is
\* called exactly once and the flag is cleared, without one render is not
\* called and the flag stays set. A step whose task panics does not return.
InvalidateRun(w) ==
    /\ pc = "running"
    /\ drain_left' = drain_left - 1
    /\ CallOf(Head(SPAWN_QUEUE)).kind = "invalidate"
    /\ CallOf(Head(SPAWN_QUEUE)).win = w
C38_StepPaint ==
    pc' # "panicked" =>
        \A w \in DOMAIN windows' :
            /\ windows'[w].need_paint <=> ~windows'[w].gpu_context
            /\ w \in DOMAIN windows =>
                  /\ (InvalidateRun(w) \/ ConfigureDrain(w)) =>
                        IF windows'[w].gpu_context
                        THEN /\ windows'[w].n_render = windows[w].n_render + 1
                             /\ ~windows'[w].need_paint
                        ELSE /\ windows'[w].n_render = windows[w].n_render
                             /\ windows'[w].need_paint
                  /\ windows'[w].n_render # windows[w].n_render =>
                        /\ windows'[w].n_render = windows[w].n_render + 1
                        /\ ~windows'[w].need_paint
C38_PaintFlag == [][C38_StepPaint]_vars
\* invalidate ran before the window had a context (no render, flag set) and
\* the first configure drain then painted with the new context.
C38_Witness ==
    /\ pc # "panicked"
    /\ \E w \in DOMAIN windows :
          /\ windows[w].gpu_context
          /\ ~windows[w].need_paint
          /\ windows[w].n_render = 1
          /\ \E c \in Made : /\ CallOf(c).kind = "invalidate"
                             /\ CallOf(c).win = w
                             /\ CallOf(c).invoked = 1

====
